---------------------------- MODULE Spec2Model ----------------------------
(***************************************************************************)
(* Linguistic atomization framework: the atomization of a text into the    *)
(* hierarchy theme -> paragraph -> sentence -> word -> letter, the         *)
(* persisted corpus format, and the orchestration of analysis modules.     *)
(*                                                                         *)
(* A text is a sequence of one-character strings.  An atom ID is a         *)
(* sequence of one-character strings as well ("T001" is <<"T","0","0",     *)
(* "1">>), so that formatting a counter is a computation on digits.        *)
(***************************************************************************)
EXTENDS Integers, Sequences, FiniteSets, TLC

VARIABLES
    content,      \* the text read from the source document
    phase,        \* position of the atomize / export / load run
    result,       \* the dict atomize_manuscript returns
    naming,       \* the naming strategy of the run
    file,         \* the persisted corpus document written by export_json
    loaded        \* the corpus load_json returns

VARIABLES
    counters,        \* the per-level sequence counters of the Atomizer instance
    history          \* the runs of the Atomizer instance, in order

atomVars == <<content, phase, result, naming, file, loaded, counters, history>>

VARIABLES
    driver,          \* which entry point runs: cmd_analyze, run_analysis, Pipeline.run
    project_found,   \* find_project_path found the project
    corpus_exists,   \* the atomized corpus file exists
    modules_to_run,  \* the configured analysis modules, in order
    behaviour,       \* what analyze of each registered module does
    pc,              \* position of the run
    idx,             \* index of the next module of the loop
    executed,        \* indices of the modules whose analyze was called
    results,         \* names of the modules with an output in the results
    reported,        \* indices of the modules whose failure was caught and reported
    exit_code,       \* the command's exit status (NoExit while running)
    visualize,       \* the visualize argument of Pipeline.run
    atomize_ok,      \* atomization of the configured documents succeeds
    state,           \* the state of the Pipeline run
    visited          \* the Pipeline states left so far, in order

runVars == <<driver, project_found, corpus_exists, modules_to_run, behaviour,
             pc, idx, executed, results, reported, exit_code, visualize,
             atomize_ok, state, visited>>

VARIABLES
    registry,     \* the four namespaces of the process-wide registry
    instances,    \* the analysis module instances created so far
    calls,        \* the analyze calls made so far, with their outputs
    env,          \* which optional backends this process can import and load
    corpus_atoms, \* the corpus handed to analyze: its sentences
    last_create,  \* the last create_analysis / create_adapter call and its end
    last_register \* the last register_analysis / register_adapter call

modVars == <<registry, instances, calls, env, corpus_atoms, last_create,
             last_register>>

VARIABLES
    migration,    \* a run of the migrate command: its arguments and the disk
    session,      \* st.session_state of the web app
    launcher,     \* the desktop launcher and its Streamlit subprocess
    embed,        \* a generate_embeddable_html call and its temporary file
    peaks         \* a find_emotional_peaks call: its arguments and result

toolVars == <<migration, session, launcher, embed, peaks>>

vars == <<atomVars, runVars, modVars, toolVars>>

--------------------------------------------------------------------------
(* Bounds and input alphabet *)

\* longest input text, counted in tokens
MaxTokens == 5

\* longest list of configured analysis modules
MaxModules == 3

NL == "\n"
SP == " "

\* the pieces input texts are assembled from: single characters and one
\* complete heading line
Tokens ==
    { <<"a">>, <<".">>, <<SP>>, <<NL>>, <<"#">>,
      <<"#", "#", SP, "h", NL>> }

RECURSIVE TextsUpTo(_)
TextsUpTo(n) ==
    IF n = 0 THEN { <<>> }
    ELSE LET shorter == TextsUpTo(n - 1)
         IN  shorter \cup { t \o k : t \in shorter, k \in Tokens }

Texts == TextsUpTo(MaxTokens)

--------------------------------------------------------------------------
(* Python string and regular expression primitives *)

\* str.isspace on one character (\s of the re module)
IsSpace(c) == c \in { SP, NL }

\* s[i:j] with 1-based inclusive bounds; empty when j < i
Slice(s, i, j) ==
    LET hi == IF j > Len(s) THEN Len(s) ELSE j
    IN  IF hi < i THEN <<>> ELSE SubSeq(s, i, hi)

RECURSIVE LStripFrom(_, _)
LStripFrom(s, i) ==
    IF i > Len(s) THEN i
    ELSE IF IsSpace(s[i]) THEN LStripFrom(s, i + 1) ELSE i

RECURSIVE RStripFrom(_, _)
RStripFrom(s, j) ==
    IF j < 1 THEN j
    ELSE IF IsSpace(s[j]) THEN RStripFrom(s, j - 1) ELSE j

\* str.strip()
Strip(s) == Slice(s, LStripFrom(s, 1), RStripFrom(s, Len(s)))

\* index of the first character at or after i for which the line ends
\* (a newline), or Len(s) + 1
RECURSIVE LineEnd(_, _)
LineEnd(s, i) ==
    IF i > Len(s) THEN i
    ELSE IF s[i] = NL THEN i ELSE LineEnd(s, i + 1)

\* ^## (.+)$ with re.MULTILINE matches at position i
HeadingAt(s, i) ==
    /\ i = 1 \/ s[i - 1] = NL
    /\ i + 3 <= Len(s)
    /\ s[i] = "#" /\ s[i + 1] = "#" /\ s[i + 2] = SP
    /\ s[i + 3] # NL

\* re.split(r'^## (.+)$', content, flags=re.MULTILINE):
\* <<before, title1, between1, title2, between2, ...>>
RECURSIVE SplitThemes(_, _, _, _)
SplitThemes(s, i, start, acc) ==
    IF i > Len(s) THEN Append(acc, Slice(s, start, Len(s)))
    ELSE IF HeadingAt(s, i)
         THEN LET e == LineEnd(s, i + 3)
              IN  SplitThemes(s, e, e,
                      acc \o << Slice(s, start, i - 1), Slice(s, i + 3, e - 1) >>)
         ELSE SplitThemes(s, i + 1, start, acc)

\* end of the run of newlines that starts at i
RECURSIVE NewlineRunEnd(_, _)
NewlineRunEnd(s, i) ==
    IF i + 1 <= Len(s) /\ s[i + 1] = NL THEN NewlineRunEnd(s, i + 1) ELSE i

\* re.split(r'\n\n+', theme_text)
RECURSIVE SplitParagraphs(_, _, _, _)
SplitParagraphs(s, i, start, acc) ==
    IF i > Len(s) THEN Append(acc, Slice(s, start, Len(s)))
    ELSE IF s[i] = NL /\ i + 1 <= Len(s) /\ s[i + 1] = NL
         THEN LET e == NewlineRunEnd(s, i)
              IN  SplitParagraphs(s, e + 1, e + 1,
                      Append(acc, Slice(s, start, i - 1)))
         ELSE SplitParagraphs(s, i + 1, start, acc)

\* end of the run of whitespace that starts at i
RECURSIVE SpaceRunEnd(_, _)
SpaceRunEnd(s, i) ==
    IF i + 1 <= Len(s) /\ IsSpace(s[i + 1]) THEN SpaceRunEnd(s, i + 1) ELSE i

\* re.split(r'(?<=[.!?])\s+', para_text)
RECURSIVE SplitSentences(_, _, _, _)
SplitSentences(s, i, start, acc) ==
    IF i > Len(s) THEN Append(acc, Slice(s, start, Len(s)))
    ELSE IF i > 1 /\ s[i - 1] \in { ".", "!", "?" } /\ IsSpace(s[i])
         THEN LET e == SpaceRunEnd(s, i)
              IN  SplitSentences(s, e + 1, e + 1,
                      Append(acc, Slice(s, start, i - 1)))
         ELSE SplitSentences(s, i + 1, start, acc)

\* end of the run of non-whitespace that starts at i
RECURSIVE WordRunEnd(_, _)
WordRunEnd(s, i) ==
    IF i + 1 <= Len(s) /\ ~IsSpace(s[i + 1]) THEN WordRunEnd(s, i + 1) ELSE i

\* variant: words cut at punctuation as well (\w+ in place of \S+)
RECURSIVE FindWordsAlnum(_, _, _)
FindWordsAlnum(s, i, acc) ==
    IF i > Len(s) THEN acc
    ELSE IF IsSpace(s[i]) \/ s[i] \in { ".", "#" }
         THEN FindWordsAlnum(s, i + 1, acc)
         ELSE FindWordsAlnum(s, i + 1, Append(acc, << s[i] >>))

\* re.findall(r'\S+', sent_text)
RECURSIVE FindWords(_, _, _)
FindWords(s, i, acc) ==
    IF i > Len(s) THEN acc
    ELSE IF IsSpace(s[i]) THEN FindWords(s, i + 1, acc)
         ELSE LET e == WordRunEnd(s, i)
              IN  FindWords(s, e + 1, Append(acc, Slice(s, i, e)))

--------------------------------------------------------------------------
(* Atom IDs *)

Strategies == { "legacy", "hierarchical", "semantic", "uuid", "hybrid" }

Levels == << "theme", "paragraph", "sentence", "word", "letter" >>

\* the prefix letter of a level's IDs
Prefix(level) ==
    CASE level = "theme"     -> "T"
      [] level = "paragraph" -> "P"
      [] level = "sentence"  -> "S"
      [] level = "word"      -> "W"
      [] level = "letter"    -> "L"

\* the width the format specs :03d, :04d, :05d, :06d and :08d give
Width(level) ==
    CASE level = "theme"     -> 3
      [] level = "paragraph" -> 4
      [] level = "sentence"  -> 5
      [] level = "word"      -> 6
      [] level = "letter"    -> 8

DigitChars == << "0", "1", "2", "3", "4", "5", "6", "7", "8", "9" >>

\* str(n) for n >= 0
RECURSIVE Decimal(_)
Decimal(n) ==
    IF n < 10 THEN << DigitChars[n + 1] >>
    ELSE Append(Decimal(n \div 10), DigitChars[(n % 10) + 1])

\* format(n, '0<w>d'): zero-padded to at least w digits, never truncated
ZeroPad(n, w) ==
    LET ds == Decimal(n)
    IN  IF Len(ds) >= w THEN ds
        ELSE [ i \in 1 .. (w - Len(ds)) |-> "0" ] \o ds

\* variant: the counter printed without its zero-padded width
LegacyIdUnpadded(level, n) == << Prefix(level) >> \o Decimal(n)

\* f"T{theme_counter:03d}", f"P{paragraph_counter:04d}", ...
LegacyId(level, n) == << Prefix(level) >> \o ZeroPad(n, Width(level))

\* variant: the increment left out
BumpForgotten(n) == n

\* the value counter n takes after an atom was appended (counter += 1)
Bump(n) == n + 1

\* slug of a text: its alphanumeric runs joined by "-"
RECURSIVE Slugify(_, _, _)
Slugify(s, i, acc) ==
    IF i > Len(s) THEN acc
    ELSE IF s[i] \in { "a", "h" }
         THEN Slugify(s, i + 1, Append(acc, s[i]))
         ELSE IF acc # <<>> /\ acc[Len(acc)] # "-" /\ i < Len(s)
              THEN Slugify(s, i + 1, Append(acc, "-"))
              ELSE Slugify(s, i + 1, acc)

\* the ID of the n-th atom of a level under a naming strategy
GenerateId(strategy, level, n, text, parent_id) ==
    CASE strategy = "legacy" -> LegacyId(level, n)
      [] strategy = "hierarchical" ->
            IF parent_id = <<>> THEN LegacyId(level, n)
            ELSE parent_id \o << "." >> \o LegacyId(level, n)
      [] strategy = "semantic" ->
            Slugify(text, 1, <<>>) \o << "-" >> \o Decimal(n)
      [] strategy = "hybrid" ->
            << Prefix(level) >> \o Slice(Slugify(text, 1, <<>>), 1, 2)
                \o << "-" >> \o ZeroPad(n, Width(level))
      [] strategy = "uuid" -> << "u", "u", "i", "d", "-" >> \o Decimal(n)
      [] strategy = "uuid_again" ->
            << "u", "u", "i", "d", "+" >> \o Decimal(n)

--------------------------------------------------------------------------
(* atomize_manuscript: the nested loops over themes, paragraphs, sentences, *)
(* words and letters.  ctr holds the five running counters.                *)

InitialCounters ==
    [ theme |-> 1, paragraph |-> 1, sentence |-> 1, word |-> 1, letter |-> 1 ]

\* variant: the paragraph and theme back-references interchanged
LetterDictSwapped(letter_id, char, ids) ==
    [ id |-> letter_id,
      char |-> char,
      word_id |-> ids.word_id,
      sentence_id |-> ids.sentence_id,
      paragraph_id |-> ids.theme_id,
      theme_id |-> ids.paragraph_id ]

\* the dict appended to letters: the letter with the IDs of all its ancestors
LetterDict(letter_id, char, ids) ==
    [ id |-> letter_id,
      char |-> char,
      word_id |-> ids.word_id,
      sentence_id |-> ids.sentence_id,
      paragraph_id |-> ids.paragraph_id,
      theme_id |-> ids.theme_id ]

\* variant: nothing counts as blank
IsBlankNever(s) == FALSE

\* not para_text.strip(), not sent_text.strip()
IsBlank(s) == Strip(s) = <<>>

\* the running state of the loops: the atoms appended so far to the list
\* being built, and the five counters
LoopState(items, ctr) == [ items |-> items, ctr |-> ctr ]

\* letters.append(...); letter_counter += 1
LetterAppend(s, char, ids, letter_id) ==
    LoopState(Append(s.items, LetterDict(letter_id, char, ids)),
              [ s.ctr EXCEPT !.letter = Bump(@) ])

\* for char in word_text
RECURSIVE LetterLoop(_, _, _, _, _)
LetterLoop(st, word_text, i, ids, s) ==
    IF i > Len(word_text) THEN s
    ELSE LetterLoop(st, word_text, i + 1, ids,
             LetterAppend(s, word_text[i], ids,
                 GenerateId(st, "letter", s.ctr.letter,
                            << word_text[i] >>, ids.word_id)))

\* the dict appended to words
WordDict(word_id, word_text, letters, ids) ==
    [ id |-> word_id,
      text |-> word_text,
      letter_count |-> Len(letters),
      letters |-> letters,
      sentence_id |-> ids.sentence_id,
      paragraph_id |-> ids.paragraph_id,
      theme_id |-> ids.theme_id ]

\* words.append(...); word_counter += 1, after the letters of the word
WordAppend(items, word_id, word_text, ids, inner) ==
    LoopState(Append(items, WordDict(word_id, word_text, inner.items, ids)),
              [ inner.ctr EXCEPT !.word = Bump(@) ])

\* the body of the word loop once word_id is formatted
WordBody(st, word_text, ids, s, word_id) ==
    WordAppend(s.items, word_id, word_text, ids,
        LetterLoop(st, word_text, 1,
            [ word_id |-> word_id,
              sentence_id |-> ids.sentence_id,
              paragraph_id |-> ids.paragraph_id,
              theme_id |-> ids.theme_id ],
            LoopState(<<>>, s.ctr)))

\* for word_text in words_text
RECURSIVE WordLoop(_, _, _, _, _)
WordLoop(st, words_text, i, ids, s) ==
    IF i > Len(words_text) THEN s
    ELSE WordLoop(st, words_text, i + 1, ids,
             WordBody(st, words_text[i], ids, s,
                 GenerateId(st, "word", s.ctr.word, words_text[i],
                            ids.sentence_id)))

\* the dict appended to sentences
SentenceDict(sent_id, sent_text, words, ids) ==
    [ id |-> sent_id,
      text |-> sent_text,
      word_count |-> Len(words),
      words |-> words,
      paragraph_id |-> ids.paragraph_id,
      theme_id |-> ids.theme_id ]

\* sentences.append(...); sentence_counter += 1, after the words
SentenceAppend(items, sent_id, sent_text, ids, inner) ==
    LoopState(Append(items, SentenceDict(sent_id, sent_text, inner.items, ids)),
              [ inner.ctr EXCEPT !.sentence = Bump(@) ])

\* the body of the sentence loop once sent_id is formatted
SentenceBody(st, sent_text, ids, s, sent_id) ==
    SentenceAppend(s.items, sent_id, sent_text, ids,
        WordLoop(st, FindWords(sent_text, 1, <<>>), 1,
            [ sentence_id |-> sent_id,
              paragraph_id |-> ids.paragraph_id,
              theme_id |-> ids.theme_id ],
            LoopState(<<>>, s.ctr)))

\* for sent_text in sentences_text, blank sentences skipped
RECURSIVE SentenceLoop(_, _, _, _, _)
SentenceLoop(st, sentences_text, i, ids, s) ==
    IF i > Len(sentences_text) THEN s
    ELSE IF IsBlank(sentences_text[i])
         THEN SentenceLoop(st, sentences_text, i + 1, ids, s)
         ELSE SentenceLoop(st, sentences_text, i + 1, ids,
                  SentenceBody(st, sentences_text[i], ids, s,
                      GenerateId(st, "sentence", s.ctr.sentence,
                                 sentences_text[i], ids.paragraph_id)))

\* the dict appended to paragraphs
ParagraphDict(para_id, para_text, sentences, ids) ==
    [ id |-> para_id,
      text |-> para_text,
      sentence_count |-> Len(sentences),
      sentences |-> sentences,
      theme_id |-> ids.theme_id ]

\* paragraphs.append(...); paragraph_counter += 1, after the sentences
ParagraphAppend(items, para_id, para_text, ids, inner) ==
    LoopState(Append(items,
                  ParagraphDict(para_id, para_text, inner.items, ids)),
              [ inner.ctr EXCEPT !.paragraph = Bump(@) ])

\* the body of the paragraph loop once para_id is formatted
ParagraphBody(st, para_text, ids, s, para_id) ==
    ParagraphAppend(s.items, para_id, para_text, ids,
        SentenceLoop(st, SplitSentences(para_text, 1, 1, <<>>), 1,
            [ paragraph_id |-> para_id, theme_id |-> ids.theme_id ],
            LoopState(<<>>, s.ctr)))

\* for para_text in paragraphs_text, blank paragraphs skipped
RECURSIVE ParagraphLoop(_, _, _, _, _)
ParagraphLoop(st, paragraphs_text, i, ids, s) ==
    IF i > Len(paragraphs_text) THEN s
    ELSE IF IsBlank(paragraphs_text[i])
         THEN ParagraphLoop(st, paragraphs_text, i + 1, ids, s)
         ELSE ParagraphLoop(st, paragraphs_text, i + 1, ids,
                  ParagraphBody(st, paragraphs_text[i], ids, s,
                      GenerateId(st, "paragraph", s.ctr.paragraph,
                                 paragraphs_text[i], ids.theme_id)))

\* the dict appended to themes
ThemeDict(theme_id, theme_title, theme_text, paragraphs) ==
    [ id |-> theme_id,
      title |-> theme_title,
      text |-> theme_text,
      paragraph_count |-> Len(paragraphs),
      paragraphs |-> paragraphs ]

\* themes.append(...); theme_counter += 1, after the paragraphs
ThemeAppend(items, theme_id, theme_title, theme_text, inner) ==
    LoopState(Append(items,
                  ThemeDict(theme_id, theme_title, theme_text, inner.items)),
              [ inner.ctr EXCEPT !.theme = Bump(@) ])

\* the body of the theme loop once title, text and theme_id are known
ThemeBody(st, theme_title, theme_text, s, theme_id) ==
    ThemeAppend(s.items, theme_id, theme_title, theme_text,
        ParagraphLoop(st, SplitParagraphs(theme_text, 1, 1, <<>>), 1,
            [ theme_id |-> theme_id ], LoopState(<<>>, s.ctr)))

\* the title and text of a theme stripped, and its ID formatted
ThemeStep(st, theme_title, theme_text, s) ==
    ThemeBody(st, theme_title, theme_text, s,
        GenerateId(st, "theme", s.ctr.theme, theme_title, <<>>))

\* for i in range(1, len(parts), 2)
RECURSIVE ThemeLoop(_, _, _, _)
ThemeLoop(st, parts, i, s) ==
    \* parts is 1-based here: Python's parts[i] is parts[i + 1]
    IF i >= Len(parts) \/ i + 1 >= Len(parts) THEN s
    ELSE ThemeLoop(st, parts, i + 2,
             ThemeStep(st, Strip(parts[i + 1]), Strip(parts[i + 2]), s))

\* variant: the running counter taken as the total
TotalIsCounter(counter) == counter

\* total_paragraphs = paragraph_counter - 1, ...
Total(counter) == counter - 1

\* the dict written out: the totals and the themes
CorpusDict(run) ==
    [ metadata |->
        [ total_themes |-> Len(run.items),
          total_paragraphs |-> Total(run.ctr.paragraph),
          total_sentences |-> Total(run.ctr.sentence),
          total_words |-> Total(run.ctr.word),
          total_letters |-> Total(run.ctr.letter) ],
      themes |-> run.items ]

\* the dict atomize_manuscript returns for a text
atomize_manuscript(st, text) ==
    CorpusDict(ThemeLoop(st, SplitThemes(text, 1, 1, <<>>), 1,
                         LoopState(<<>>, InitialCounters)))

--------------------------------------------------------------------------
(* The persisted corpus format: a stream of JSON events.  An object opens  *)
(* with its scalar members, its child array follows, and an end event      *)
(* closes it.  String members are escaped as JSON strings.                 *)

\* variant: a string member read back without decoding its escapes
JsonUnescapeRaw(s) == s

\* JSON string encoding of a text: a newline becomes the two characters \n
RECURSIVE JsonEscape(_)
JsonEscape(s) ==
    IF s = <<>> THEN <<>>
    ELSE (IF Head(s) = NL THEN << "\\", "n" >> ELSE << Head(s) >>)
             \o JsonEscape(Tail(s))

\* JSON string decoding
RECURSIVE JsonUnescape(_)
JsonUnescape(s) ==
    IF s = <<>> THEN <<>>
    ELSE IF Head(s) = "\\" /\ Len(s) >= 2 /\ s[2] = "n"
         THEN << NL >> \o JsonUnescape(Tail(Tail(s)))
         ELSE << Head(s) >> \o JsonUnescape(Tail(s))

\* the member that holds the children of an atom of a level
ChildKey(level) ==
    CASE level = "theme"     -> "paragraphs"
      [] level = "paragraph" -> "sentences"
      [] level = "sentence"  -> "words"
      [] level = "word"      -> "letters"

NextLevel(level) ==
    CASE level = "theme"     -> "paragraph"
      [] level = "paragraph" -> "sentence"
      [] level = "sentence"  -> "word"
      [] level = "word"      -> "letter"

\* members holding text, which are written as JSON strings
TextKeys == { "text", "title", "char" }

\* the scalar members of an atom, encoded
Scalars(atom, level) ==
    LET keys == IF level = "letter" THEN DOMAIN atom
                ELSE DOMAIN atom \ { ChildKey(level) }
    IN  [ k \in keys |->
            IF k = "char" THEN JsonEscape(<< atom[k] >>)
            ELSE IF k \in TextKeys THEN JsonEscape(atom[k])
            ELSE atom[k] ]

\* the events of a list of atoms of one level
RECURSIVE DumpAtoms(_, _)
DumpAtoms(atoms, level) ==
    IF atoms = <<>> THEN <<>>
    ELSE LET a == Head(atoms)
             kids == IF level = "letter" THEN <<>>
                     ELSE DumpAtoms(a[ChildKey(level)], NextLevel(level))
         IN  << [ ev |-> "object", level |-> level,
                  members |-> Scalars(a, level) ] >>
                 \o kids \o << [ ev |-> "end" ] >>
                 \o DumpAtoms(Tail(atoms), level)

\* Atomizer.export_json: metadata first, then the themes
ExportJson(corpus) ==
    << [ ev |-> "metadata", members |-> corpus.metadata ] >>
        \o DumpAtoms(corpus.themes, "theme")

\* the decoded scalar members of an object event
Decoded(members) ==
    [ k \in DOMAIN members |->
        IF k = "char" THEN JsonUnescape(members[k])[1]
        ELSE IF k \in TextKeys THEN JsonUnescape(members[k])
        ELSE members[k] ]

\* reads the atoms of one level from position pos up to the event closing
\* the enclosing object; returns the atoms and the position after them
RECURSIVE ParseAtoms(_, _, _, _)
ParseAtoms(events, pos, level, acc) ==
    IF pos > Len(events) \/ events[pos].ev # "object"
    THEN [ atoms |-> acc, pos |-> pos ]
    ELSE LET scalars == Decoded(events[pos].members)
         IN  IF level = "letter"
             THEN ParseAtoms(events, pos + 2, level, Append(acc, scalars))
             ELSE LET kids == ParseAtoms(events, pos + 1, NextLevel(level), <<>>)
                      atom == [ k \in DOMAIN scalars \cup { ChildKey(level) } |->
                                  IF k = ChildKey(level) THEN kids.atoms
                                  ELSE scalars[k] ]
                  IN  ParseAtoms(events, kids.pos + 1, level, Append(acc, atom))

\* Atomizer.load_json: the IDs, texts and counts are those of the file
LoadJson(events) ==
    [ metadata |-> events[1].members,
      themes |-> ParseAtoms(events, 2, "theme", <<>>).atoms ]

--------------------------------------------------------------------------
(* The atomization run: atomize, export, load *)

NoResult == [ metadata |-> << >>, themes |-> << >> ]

\* one create_analysis / create_adapter call: how it ended, and its arguments
Created(ended, namespace, name) ==
    [ result |-> ended, namespace |-> namespace, name |-> name ]

\* no create call yet
NoCreate == Created("none", "none", "none")

\* one register_analysis / register_adapter call
Registration(namespace, name, cls) ==
    [ namespace |-> namespace, name |-> name, cls |-> cls ]

\* no register call yet
NoRegister == Registration("none", "none", "none")

\* none of the other programs is in use
IdleTool ==
    /\ migration = << >>
    /\ session = << >>
    /\ launcher = << >>
    /\ embed = << >>
    /\ peaks = << >>

\* no analysis module is in use
IdleMod ==
    /\ registry = << >>
    /\ instances = << >>
    /\ calls = << >>
    /\ env = << >>
    /\ corpus_atoms = << >>
    /\ last_create = NoCreate
    /\ last_register = NoRegister

\* no command is running
IdleRun ==
    /\ driver = "none"
    /\ project_found = TRUE
    /\ corpus_exists = TRUE
    /\ modules_to_run = <<>>
    /\ behaviour = <<>>
    /\ pc = "idle"
    /\ idx = 1
    /\ executed = {}
    /\ results = {}
    /\ reported = {}
    /\ exit_code = -1
    /\ visualize = FALSE
    /\ atomize_ok = TRUE
    /\ state = "NONE"
    /\ visited = <<>>

InitAtom ==
    /\ content \in Texts
    /\ naming \in Strategies
    /\ phase = "read"
    /\ result = NoResult
    /\ file = <<>>
    /\ loaded = NoResult
    /\ counters = InitialCounters
    /\ history = <<>>
    /\ IdleRun
    /\ IdleMod
    /\ IdleTool

Atomize ==
    /\ phase = "read"
    /\ result' = atomize_manuscript(naming, content)
    /\ phase' = "atomized"
    /\ UNCHANGED << content, naming, file, loaded, counters, history,
                    runVars, modVars,
                    toolVars >>

\* atomizer.export_json(corpus, output_path)
Export ==
    /\ phase = "atomized"
    /\ file' = ExportJson(result)
    /\ phase' = "exported"
    /\ UNCHANGED << content, naming, result, loaded, counters, history,
                    runVars, modVars,
                    toolVars >>

\* corpus = Atomizer.load_json(corpus_path)
Load ==
    /\ phase = "exported"
    /\ loaded' = LoadJson(file)
    /\ phase' = "loaded"
    /\ UNCHANGED << content, naming, result, file, counters, history,
                    runVars, modVars,
                    toolVars >>

NextAtom == Atomize \/ Export \/ Load

SpecAtom == InitAtom /\ [][NextAtom]_vars

--------------------------------------------------------------------------
(* One Atomizer instance used for several texts: its counters go on from   *)
(* run to run until _reset_counters() is called.                           *)

\* longest text given to the instance first, counted in tokens
MaxFirstTokens == 3

\* most atomize_text calls on the instance
MaxRuns == 3

\* texts atomized in between
OtherTexts ==
    { << "#", "#", SP, "h", NL, "a" >>,
      << "#", "#", SP, "h", NL, "a", SP, "a", ".",
         "#", "#", SP, "h", NL, "a" >> }

\* the identifiers a run can be given: the counters decide them, but a uuid
\* is drawn anew, from other values than the run before may have had
Draws(strategy) ==
    IF strategy = "uuid" THEN { "uuid", "uuid_again" } ELSE { strategy }

\* variant: the letter counter goes on
reset_counters_but_letters(ctr) ==
    [ InitialCounters EXCEPT !.letter = ctr.letter ]

\* Atomizer._reset_counters()
reset_counters(ctr) == InitialCounters

\* one run of the instance, as history keeps it
Run(text, after_reset, themes) ==
    [ text |-> text, after_reset |-> after_reset, themes |-> themes ]

\* the run is over: the counters stay where it left them
Ran(text, run) ==
    /\ counters' = run.ctr
    /\ history' = Append(history, Run(text, phase = "reset", run.items))
    /\ result' = [ metadata |-> << >>, themes |-> run.items ]

InitAtomizer ==
    /\ content \in TextsUpTo(MaxFirstTokens)
    /\ naming \in Strategies
    /\ phase = "new"
    /\ result = NoResult
    /\ file = <<>>
    /\ loaded = NoResult
    /\ counters = InitialCounters
    /\ history = <<>>
    /\ IdleRun
    /\ IdleMod
    /\ IdleTool

\* atomizer.atomize_text(text, first_level): the first text first, then it
\* or another
AtomizeText ==
    /\ phase \in { "new", "used", "reset" }
    /\ Len(history) < MaxRuns
    /\ \E text \in IF history = <<>> THEN { content }
                   ELSE { content } \cup OtherTexts :
           \E st \in Draws(naming) :
               Ran(text, ThemeLoop(st, SplitThemes(text, 1, 1, <<>>), 1,
                                   LoopState(<<>>, counters)))
    /\ phase' = "used"
    /\ UNCHANGED << content, naming, file, loaded, runVars, modVars,
                    toolVars >>

\* atomizer._reset_counters()
ResetCounters ==
    /\ phase = "used"
    /\ counters' = reset_counters(counters)
    /\ phase' = "reset"
    /\ UNCHANGED << content, naming, result, file, loaded, history,
                    runVars, modVars,
                    toolVars >>

NextAtomizer == AtomizeText \/ ResetCounters

SpecAtomizer == InitAtomizer /\ [][NextAtomizer]_vars

--------------------------------------------------------------------------
(* Running the analysis modules: cmd_analyze of the project CLI and        *)
(* run_analysis of the one-command CLI.                                    *)

\* the analysis modules setup_framework registers
Registered == { "evaluation", "semantic", "sentiment" }

\* a module name no class is registered under
Unregistered == "nosuch"

\* what a call of analyze can do: return an output, or raise
Outcomes == { "ok", "KeyError", "ValueError" }

RECURSIVE SeqsUpTo(_, _)
SeqsUpTo(S, n) ==
    IF n = 0 THEN { <<>> }
    ELSE LET shorter == SeqsUpTo(S, n - 1)
         IN  shorter \cup { Append(q, x) : q \in shorter, x \in S }

\* the modules run_analysis runs, in its order
SimpleModules == << "evaluation", "semantic", "sentiment" >>

\* whether the except clause that guards a call catches an exception:
\* "KeyError" is except KeyError, "Exception" is except Exception, and
\* "none" is a call outside any try
Caught(handler, exc) ==
    \/ handler = "Exception"
    \/ handler = "KeyError" /\ exc = "KeyError"

\* the except clause around the k-th module of a driver
Handler(d, k) ==
    CASE d = "cmd_analyze"  -> "KeyError"
      [] d = "run_analysis" -> IF k = 1 THEN "none" ELSE "Exception"
      [] d = "pipeline"     -> "Exception"

\* what running module name does: registry.create_analysis raises KeyError
\* for an unregistered name, otherwise analyze decides
OutcomeOf(name) ==
    IF name \notin Registered THEN "KeyError" ELSE behaviour[name]

\* variant: the loop steps over every other module
NextIndexSkipping(k) == k + 2

\* for pipeline_config in modules_to_run: the position after module k
NextIndex(k) == k + 1

RunIdleExcept ==
    /\ visualize = FALSE
    /\ atomize_ok = TRUE
    /\ state = "NONE"
    /\ visited = <<>>

IdleAtom ==
    /\ counters = InitialCounters
    /\ history = <<>>
    /\ content = <<>>
    /\ naming = "legacy"
    /\ phase = "idle"
    /\ result = [ metadata |-> << >>, themes |-> << >> ]
    /\ file = <<>>
    /\ loaded = [ metadata |-> << >>, themes |-> << >> ]

InitRun ==
    /\ driver \in { "cmd_analyze", "run_analysis" }
    /\ project_found \in BOOLEAN
    /\ corpus_exists \in BOOLEAN
    /\ behaviour \in [ Registered -> Outcomes ]
    /\ modules_to_run \in
         IF driver = "run_analysis" THEN { SimpleModules }
         ELSE SeqsUpTo(Registered \cup { Unregistered }, MaxModules)
    /\ driver = "run_analysis" => (project_found /\ corpus_exists)
    /\ pc = "start"
    /\ idx = 1
    /\ executed = {}
    /\ results = {}
    /\ reported = {}
    /\ exit_code = -1
    /\ RunIdleExcept
    /\ IdleAtom
    /\ IdleMod
    /\ IdleTool

\* load_project_config: sys.exit(1) when the project is not found
ProjectMissing ==
    /\ pc = "start" /\ driver = "cmd_analyze"
    /\ ~project_found
    /\ pc' = "exited"
    /\ exit_code' = 1
    /\ UNCHANGED << driver, project_found, corpus_exists, modules_to_run,
                    behaviour, idx, executed, results, reported, visualize,
                    atomize_ok, state, visited, atomVars, modVars,
                    toolVars >>

\* variant: the missing corpus file is not noticed and the loop begins
CorpusMissingIgnored ==
    /\ pc = "start" /\ driver = "cmd_analyze"
    /\ project_found /\ ~corpus_exists
    /\ pc' = "modules"
    /\ UNCHANGED << driver, project_found, corpus_exists, modules_to_run,
                    behaviour, idx, executed, results, reported, exit_code,
                    visualize, atomize_ok, state, visited, atomVars, modVars,
                    toolVars >>

\* cmd_analyze: return 1 when the atomized corpus file does not exist
CorpusMissing ==
    /\ pc = "start" /\ driver = "cmd_analyze"
    /\ project_found /\ ~corpus_exists
    /\ pc' = "exited"
    /\ exit_code' = 1
    /\ UNCHANGED << driver, project_found, corpus_exists, modules_to_run,
                    behaviour, idx, executed, results, reported, visualize,
                    atomize_ok, state, visited, atomVars, modVars,
                    toolVars >>

\* the corpus is loaded (cmd_analyze) or atomized (run_analysis); the
\* module loop begins
BeginModules ==
    /\ pc = "start" /\ driver \in { "cmd_analyze", "run_analysis" }
    /\ project_found /\ corpus_exists
    /\ pc' = "modules"
    /\ UNCHANGED << driver, project_found, corpus_exists, modules_to_run,
                    behaviour, idx, executed, results, reported, exit_code,
                    visualize, atomize_ok, state, visited, atomVars, modVars,
                    toolVars >>

\* one module: create_analysis, analyze and the export or store of its
\* output, inside the try of the driver
RunModule ==
    /\ pc = "modules" /\ driver \in { "cmd_analyze", "run_analysis" }
    /\ idx <= Len(modules_to_run)
    /\ LET name == modules_to_run[idx]
           out == OutcomeOf(name)
       IN  /\ executed' = IF name \in Registered THEN executed \cup { idx }
                          ELSE executed
           /\ IF out = "ok"
              THEN /\ results' = results \cup { name }
                   /\ idx' = NextIndex(idx)
                   /\ UNCHANGED << reported, pc, exit_code >>
              ELSE IF Caught(Handler(driver, idx), out)
              THEN /\ reported' = reported \cup { idx }
                   /\ idx' = NextIndex(idx)
                   /\ UNCHANGED << results, pc, exit_code >>
              ELSE \* the exception leaves the loop and the command
                   /\ pc' = "exited"
                   /\ exit_code' = 1
                   /\ results' = IF driver = "run_analysis" THEN {} ELSE results
                   /\ UNCHANGED << reported, idx >>
    /\ UNCHANGED << driver, project_found, corpus_exists, modules_to_run,
                    behaviour, visualize, atomize_ok, state, visited,
                    atomVars, modVars,
                    toolVars >>

\* the loop is over: return 0
ReturnZero ==
    /\ pc = "modules" /\ driver \in { "cmd_analyze", "run_analysis" }
    /\ idx > Len(modules_to_run)
    /\ pc' = "exited"
    /\ exit_code' = 0
    /\ UNCHANGED << driver, project_found, corpus_exists, modules_to_run,
                    behaviour, idx, executed, results, reported, visualize,
                    atomize_ok, state, visited, atomVars, modVars,
                    toolVars >>

NextRun ==
    \/ ProjectMissing
    \/ CorpusMissing
    \/ BeginModules
    \/ RunModule
    \/ ReturnZero

SpecRun == InitRun /\ [][NextRun]_vars

--------------------------------------------------------------------------
(* Pipeline.run: one run through CONFIGURED, ATOMIZING, ANALYZING,         *)
(* VISUALIZING and COMPLETE, with ERROR for a fatal failure.  cmd_run      *)
(* passes visualize from the command line.                                 *)

\* the stages a run can fail in
Stages == { "CONFIGURED", "ATOMIZING", "ANALYZING", "VISUALIZING" }

\* variant: the adapters run whatever the visualize argument says
AfterAnalyzingAlways(v) == "VISUALIZING"

\* the state that follows ANALYZING
AfterAnalyzing(v) == IF v THEN "VISUALIZING" ELSE "COMPLETE"

InitPipeline ==
    /\ driver = "pipeline"
    /\ project_found = TRUE
    /\ corpus_exists \in BOOLEAN
    /\ behaviour \in [ Registered -> Outcomes ]
    /\ modules_to_run \in SeqsUpTo(Registered \cup { Unregistered }, MaxModules)
    /\ visualize \in BOOLEAN
    /\ atomize_ok \in BOOLEAN
    /\ pc = "start"
    /\ idx = 1
    /\ executed = {}
    /\ results = {}
    /\ reported = {}
    /\ exit_code = -1
    /\ state = "CONFIGURED"
    /\ visited = <<>>
    /\ IdleAtom
    /\ IdleMod
    /\ IdleTool

\* the run moves from its state to state t
Goto(t) ==
    /\ state' = t
    /\ visited' = Append(visited, state)

\* atomization starts (it is skipped over quickly when the corpus exists)
StartAtomizing ==
    /\ state = "CONFIGURED"
    /\ Goto("ATOMIZING")
    /\ UNCHANGED << driver, project_found, corpus_exists, modules_to_run,
                    behaviour, pc, idx, executed, results, reported,
                    exit_code, visualize, atomize_ok, atomVars, modVars,
                    toolVars >>

\* the corpus is there: the analysis modules are next
AtomizingDone ==
    /\ state = "ATOMIZING"
    /\ corpus_exists \/ atomize_ok
    /\ Goto("ANALYZING")
    /\ pc' = "modules"
    /\ UNCHANGED << driver, project_found, corpus_exists, modules_to_run,
                    behaviour, idx, executed, results, reported, exit_code,
                    visualize, atomize_ok, atomVars, modVars,
                    toolVars >>

\* a failure during atomization is fatal
AtomizingFailed ==
    /\ state = "ATOMIZING"
    /\ ~corpus_exists /\ ~atomize_ok
    /\ Goto("ERROR")
    /\ pc' = "exited"
    /\ exit_code' = 1
    /\ UNCHANGED << driver, project_found, corpus_exists, modules_to_run,
                    behaviour, idx, executed, results, reported, visualize,
                    atomize_ok, atomVars, modVars,
                    toolVars >>

\* one configured module; a failure is reported for it and the run goes on
AnalyzeModule ==
    /\ state = "ANALYZING"
    /\ idx <= Len(modules_to_run)
    /\ LET name == modules_to_run[idx]
           out == OutcomeOf(name)
       IN  /\ executed' = IF name \in Registered THEN executed \cup { idx }
                          ELSE executed
           /\ results' = IF out = "ok" THEN results \cup { name } ELSE results
           /\ reported' = IF out = "ok" THEN reported ELSE reported \cup { idx }
    /\ idx' = NextIndex(idx)
    /\ UNCHANGED << driver, project_found, corpus_exists, modules_to_run,
                    behaviour, pc, exit_code, visualize, atomize_ok, state,
                    visited, atomVars, modVars,
                    toolVars >>

\* all modules ran
AnalyzingDone ==
    /\ state = "ANALYZING"
    /\ idx > Len(modules_to_run)
    /\ Goto(AfterAnalyzing(visualize))
    /\ pc' = IF AfterAnalyzing(visualize) = "COMPLETE" THEN "exited" ELSE pc
    /\ exit_code' = IF AfterAnalyzing(visualize) = "COMPLETE" THEN 0 ELSE exit_code
    /\ UNCHANGED << driver, project_found, corpus_exists, modules_to_run,
                    behaviour, idx, executed, results, reported, visualize,
                    atomize_ok, atomVars, modVars,
                    toolVars >>

\* the adapters ran
VisualizingDone ==
    /\ state = "VISUALIZING"
    /\ Goto("COMPLETE")
    /\ pc' = "exited"
    /\ exit_code' = 0
    /\ UNCHANGED << driver, project_found, corpus_exists, modules_to_run,
                    behaviour, idx, executed, results, reported, visualize,
                    atomize_ok, atomVars, modVars,
                    toolVars >>

\* a fatal failure outside the modules (configuration, reading, writing)
FatalError ==
    /\ state \in Stages
    /\ Goto("ERROR")
    /\ pc' = "exited"
    /\ exit_code' = 1
    /\ UNCHANGED << driver, project_found, corpus_exists, modules_to_run,
                    behaviour, idx, executed, results, reported, visualize,
                    atomize_ok, atomVars, modVars,
                    toolVars >>

NextPipeline ==
    \/ StartAtomizing
    \/ AtomizingDone
    \/ AtomizingFailed
    \/ AnalyzeModule
    \/ AnalyzingDone
    \/ VisualizingDone
    \/ FatalError

SpecPipeline == InitPipeline /\ [][NextPipeline]_vars

\* the commands of the CLI together: analyze, the one-command analysis, run
InitCommands == InitRun \/ InitPipeline

NextCommands == NextRun \/ NextPipeline

SpecCommands == InitCommands /\ [][NextCommands]_vars

--------------------------------------------------------------------------
(* Corpus traversal *)

RECURSIVE Cat(_)
Cat(seqs) == IF seqs = <<>> THEN <<>> ELSE Head(seqs) \o Cat(Tail(seqs))

RECURSIVE SeqSum(_)
SeqSum(ns) == IF ns = <<>> THEN 0 ELSE Head(ns) + SeqSum(Tail(ns))

\* Corpus.iter_atoms(level): the atoms of a level in document / tree order
IterAtoms(r, level) ==
    LET ps == Cat([ i \in 1 .. Len(r.themes) |-> r.themes[i].paragraphs ])
        ss == Cat([ i \in 1 .. Len(ps) |-> ps[i].sentences ])
        ws == Cat([ i \in 1 .. Len(ss) |-> ss[i].words ])
        ls == Cat([ i \in 1 .. Len(ws) |-> ws[i].letters ])
    IN  CASE level = "theme"     -> r.themes
          [] level = "paragraph" -> ps
          [] level = "sentence"  -> ss
          [] level = "word"      -> ws
          [] level = "letter"    -> ls

\* Corpus.count_atoms(level)
CountAtoms(r, level) == Len(IterAtoms(r, level))

Atomized == phase # "read"

--------------------------------------------------------------------------
(* The analysis modules EntityAnalysis, SentimentAnalysis and              *)
(* TemporalAnalysis.  A sentence text is a sequence of lower-case words;   *)
(* no word of the vocabulary contains another, so the substring tests of   *)
(* the code (w in text) are membership of w in the words of the text.      *)

\* most sentences of a corpus
MaxSentences == 2

\* most analyze calls of a process
MaxCalls == 2

\* most instances created in a process
MaxInstances == 2

SentenceTexts ==
    { << "then", "ann", "was", "good" >>,
      << "someday", "will", "remember", "grim", "iraq" >> }

\* the corpora handed to analyze: the sentences in document order, each
\* with the ID of its theme; the first sentence is in the first theme
Corpora ==
    { q \in SeqsUpTo([ theme_id : { "T001", "T002" }, text : SentenceTexts ],
                     MaxSentences) :
        q # << >> => q[1].theme_id = "T001" }

\* a dict without entries
EmptyDict == << >>

\* dict.get(key, default)
Get(d, key, default) == IF key \in DOMAIN d THEN d[key] ELSE default

\* {**a, **b}, dict.update: the entries of b override those of a
Update(a, b) ==
    [ k \in DOMAIN a \cup DOMAIN b |-> IF k \in DOMAIN b THEN b[k] ELSE a[k] ]

\* the config mappings passed to analyze (config or {} makes None empty)
Configs ==
    { EmptyDict,
      [ use_spacy |-> TRUE ], [ use_spacy |-> FALSE ],
      [ peak_count |-> 1 ],
      [ include_sankey |-> FALSE ] }

\* a pattern of this vocabulary: the words a group of alternatives matches,
\* or a run of two or more alphabetic words (the PERSON pattern under
\* re.IGNORECASE)
WordsPattern(ws) == [ kind |-> "words", words |-> ws ]
RunPattern == [ kind |-> "run", words |-> {} ]

\* EntityAnalysis.DEFAULT_PATTERNS
DEFAULT_PATTERNS ==
    [ label \in { "PERSON", "RANK", "LOCATION", "EQUIPMENT", "UNIT",
                  "TEMPORAL" } |->
        CASE label = "PERSON"    -> RunPattern
          [] label = "RANK"      -> WordsPattern({ "sergeant", "captain" })
          [] label = "LOCATION"  -> WordsPattern({ "iraq", "vietnam" })
          [] label = "EQUIPMENT" -> WordsPattern({ "rifle", "mask" })
          [] label = "UNIT"      -> WordsPattern({ "platoon", "squad" })
          [] label = "TEMPORAL"  -> WordsPattern({ "night", "dawn" }) ]

\* domain = None
NoDomain == [ name |-> "None", pattern_sets |-> << >>, lexicons |-> << >> ]

\* the domain profiles: one that bundles nothing, and one with a pattern
\* set and two lexicons
DomainProfiles ==
    { [ name |-> "base", pattern_sets |-> << >>, lexicons |-> << >> ],
      [ name |-> "military",
        pattern_sets |-> << [ MOOD |-> WordsPattern({ "grim", "good" }) ] >>,
        lexicons |-> << [ iraq |-> -2 ], [ iraq |-> -3, grim |-> 2 ] >> ] }

Domains == { NoDomain } \cup DomainProfiles

\* the truth value of a domain argument: None is false
IsDomain(domain) == domain.name # "None"

\* DomainProfile.primary_patterns: the first bundled pattern set, or None
HasPrimaryPatterns(domain) == domain.pattern_sets # << >>
PrimaryPatterns(domain) == domain.pattern_sets[1]

\* DomainProfile.merged_lexicon().terms: later lexicons override earlier
RECURSIVE MergedTerms(_, _)
MergedTerms(lexicons, acc) ==
    IF lexicons = << >> THEN acc
    ELSE MergedTerms(Tail(lexicons), Update(acc, Head(lexicons)))

\* list(set(xs)): the distinct elements of xs, in the order the hash seed of
\* the process gives them
RECURSIVE Dedupe(_, _)
Dedupe(xs, acc) ==
    IF xs = << >> THEN acc
    ELSE Dedupe(Tail(xs),
                IF \E k \in DOMAIN acc : acc[k] = Head(xs) THEN acc
                ELSE Append(acc, Head(xs)))

Reverse(xs) == [ k \in 1 .. Len(xs) |-> xs[Len(xs) + 1 - k] ]

ListOfSet(xs, seed) ==
    IF seed = 0 THEN Dedupe(xs, << >>) ELSE Reverse(Dedupe(xs, << >>))

\* pattern.findall(text): the matches in text order
RECURSIVE WordMatches(_, _, _)
WordMatches(ws, text, acc) ==
    IF text = << >> THEN acc
    ELSE WordMatches(ws, Tail(text),
             IF Head(text) \in ws THEN Append(acc, << Head(text) >>) ELSE acc)

FindAll(pattern, text) ==
    IF pattern.kind = "run"
    THEN (IF Len(text) >= 2 THEN << text >> ELSE << >>)
    ELSE WordMatches(pattern.words, text, << >>)

\* variant: the domain's patterns are added to the defaults
load_patterns_merged(domain) ==
    IF IsDomain(domain) /\ HasPrimaryPatterns(domain)
    THEN Update(DEFAULT_PATTERNS, PrimaryPatterns(domain))
    ELSE DEFAULT_PATTERNS

\* EntityAnalysis.load_patterns
load_patterns(domain) ==
    IF IsDomain(domain) /\ HasPrimaryPatterns(domain)
    THEN PrimaryPatterns(domain)
    ELSE DEFAULT_PATTERNS

\* EntityAnalysis.extract_entities_pattern: only the types with a match
extract_entities_pattern(patterns, text) ==
    [ t \in { l \in DOMAIN patterns : FindAll(patterns[l], text) # << >> }
        |-> FindAll(patterns[t], text) ]

\* the entities the statistical model finds: people and places
SpacyLabel(w) ==
    CASE w = "ann"  -> "PERSON"
      [] w = "iraq" -> "GPE"
      [] OTHER      -> "O"

RECURSIVE EntsOf(_, _, _)
EntsOf(label, text, acc) ==
    IF text = << >> THEN acc
    ELSE EntsOf(label, Tail(text),
             IF SpacyLabel(Head(text)) = label
             THEN Append(acc, << Head(text) >>) ELSE acc)

\* EntityAnalysis.extract_entities_spacy
extract_entities_spacy(nlp, text) ==
    IF ~nlp THEN EmptyDict
    ELSE [ t \in { l \in { "PERSON", "GPE" } : EntsOf(l, text, << >>) # << >> }
             |-> EntsOf(t, text, << >>) ]

\* the merge of extract_entities
MergeEntities(spacy_entities, pattern_entities, seed) ==
    [ t \in DOMAIN spacy_entities \cup DOMAIN pattern_entities |->
        IF t \in DOMAIN pattern_entities
        THEN IF t \in DOMAIN spacy_entities
             THEN ListOfSet(spacy_entities[t] \o pattern_entities[t], seed)
             ELSE pattern_entities[t]
        ELSE spacy_entities[t] ]

\* EntityAnalysis.extract_entities
extract_entities(self, text, seed) ==
    IF self.use_spacy /\ self.nlp
    THEN MergeEntities(extract_entities_spacy(self.nlp, text),
                       extract_entities_pattern(self.patterns, text), seed)
    ELSE extract_entities_pattern(self.patterns, text)

\* an instance holds the attributes of all three classes; those its class
\* does not have stay at their empty value
BlankInstance(cls) ==
    [ cls |-> cls, config |-> EmptyDict, use_spacy |-> FALSE,
      patterns |-> EmptyDict, nlp |-> FALSE, vader |-> FALSE,
      lexicon |-> EmptyDict, vader_lexicon |-> EmptyDict,
      tense_distribution |-> EmptyDict ]

\* the valences the VADER analyzer loads when it is constructed
VaderLexicon == [ good |-> 2, grim |-> -2 ]

\* the polarities TextBlob knows
TextBlobLexicon == [ good |-> 1, grim |-> -1 ]

\* spacy.load("en_core_web_sm") succeeds: the package and the model are there
ModelLoads(e) == e.spacy /\ e.model

\* variant: the guard looks at VADER only
VADER_AVAILABLE(e) == e.vader

\* SENTIMENT_AVAILABLE = VADER_AVAILABLE and TEXTBLOB_AVAILABLE
SENTIMENT_AVAILABLE(e) == e.vader /\ e.textblob

\* __init__ of the class cls
NewInstance(cls, e) ==
    CASE cls = "EntityAnalysis" ->
            [ BlankInstance(cls) EXCEPT !.nlp = ModelLoads(e) ]
      [] cls = "TemporalAnalysis" ->
            [ BlankInstance(cls) EXCEPT !.nlp = ModelLoads(e) ]
      [] cls = "SentimentAnalysis" ->
            [ BlankInstance(cls) EXCEPT
                !.vader = e.vader,
                !.vader_lexicon = IF e.vader THEN VaderLexicon ELSE EmptyDict ]
      [] OTHER -> BlankInstance(cls)

\* BaseAnalysisModule.make_output
make_output(self, data, metadata) ==
    [ module |-> self.cls, data |-> data, metadata |-> metadata ]

\* what analyze gives back: the instance as the call left it, and the output
Returned(self, out) == [ self |-> self, out |-> out ]

\* the values of one entity type over all sentences
TypeValues(sents, t) ==
    Cat([ i \in 1 .. Len(sents) |-> Get(sents[i].entities, t, << >>) ])

\* EntityAnalysis.calculate_statistics for one type
TypeStatistics(values) ==
    [ total |-> Len(values),
      unique |-> Cardinality({ values[k] : k \in DOMAIN values }) ]

EntityTypes(sents) == UNION { DOMAIN sents[i].entities : i \in DOMAIN sents }

\* the sum of the values of a dict of numbers
RECURSIVE SumValues(_, _)
SumValues(d, keys) ==
    IF keys = {} THEN 0
    ELSE LET k == CHOOSE x \in keys : TRUE
         IN  d[k] + SumValues(d, keys \ { k })

ByTypeTotals(by_type) ==
    SumValues([ t \in DOMAIN by_type |-> by_type[t].total ], DOMAIN by_type)

Statistics(by_type) ==
    [ total_entities |-> ByTypeTotals(by_type), by_type |-> by_type ]

\* EntityAnalysis.calculate_statistics
calculate_statistics(sents) ==
    Statistics([ t \in EntityTypes(sents) |->
                   TypeStatistics(TypeValues(sents, t)) ])

\* EntityAnalysis.annotate_corpus: the sentences with their entities
annotate_corpus(self, atoms, seed) ==
    [ i \in 1 .. Len(atoms) |->
        [ id |-> i,
          text |-> atoms[i].text,
          entities |-> extract_entities(self, atoms[i].text, seed) ] ]

EntityData(sents) ==
    [ enhanced_atomized |-> sents,
      entity_statistics |-> calculate_statistics(sents) ]

EntityOutput(self, atoms, e) ==
    Returned(self,
        make_output(self,
            EntityData(annotate_corpus(self, atoms, e.hash_seed)),
            [ spacy_available |-> e.spacy,
              spacy_used |-> self.use_spacy /\ self.nlp,
              pattern_count |-> Cardinality(DOMAIN self.patterns) ]))

\* EntityAnalysis.analyze
EntityAnalyze(self, atoms, domain, config, e) ==
    EntityOutput([ self EXCEPT !.config = config,
                               !.use_spacy = Get(config, "use_spacy", FALSE),
                               !.patterns = load_patterns(domain) ],
                 atoms, e)

--------------------------------------------------------------------------
(* SentimentAnalysis.  Scores are whole numbers: a text scores the sum of  *)
(* the valences of its words, and composite_score is kept as the sum of    *)
(* the two scores it is the mean of, so its sign and order are the code's. *)

\* the score an analyzer with this lexicon gives a text
RECURSIVE Polarity(_, _)
Polarity(lexicon, text) ==
    IF text = << >> THEN 0
    ELSE Get(lexicon, Head(text), 0) + Polarity(lexicon, Tail(text))

\* composite >= 0.05, composite <= -0.05, else
Classify(composite) ==
    IF composite > 0 THEN "positive"
    ELSE IF composite < 0 THEN "negative" ELSE "neutral"

SentenceScores(vader_compound, textblob_polarity) ==
    [ vader_compound |-> vader_compound,
      textblob_polarity |-> textblob_polarity,
      composite_score |-> vader_compound + textblob_polarity,
      classification |-> Classify(vader_compound + textblob_polarity) ]

\* SentimentAnalysis.analyze_sentence
analyze_sentence(self, text, e) ==
    IF ~SENTIMENT_AVAILABLE(e)
    THEN [ vader_compound |-> 0, textblob_polarity |-> 0,
           composite_score |-> 0, classification |-> "neutral" ]
    ELSE SentenceScores(Polarity(self.vader_lexicon, text),
                        Polarity(TextBlobLexicon, text))

\* one entry of sentiment_data: the sentence and its scores
SentimentEntry(number, atom, scores) ==
    [ sentence_id |-> number,
      sentence_number |-> number,
      theme_id |-> atom.theme_id,
      text |-> atom.text,
      vader_compound |-> scores.vader_compound,
      textblob_polarity |-> scores.textblob_polarity,
      composite_score |-> scores.composite_score,
      classification |-> scores.classification ]

\* SentimentAnalysis.analyze_all_sentences
analyze_all_sentences(self, atoms, e) ==
    [ i \in 1 .. Len(atoms) |->
        SentimentEntry(i, atoms[i], analyze_sentence(self, atoms[i].text, e)) ]

\* x placed after the entries whose score is not greater: a stable sort
RECURSIVE InsertByScore(_, _)
InsertByScore(sorted, x) ==
    IF sorted = << >> THEN << x >>
    ELSE IF Head(sorted).composite_score <= x.composite_score
         THEN << Head(sorted) >> \o InsertByScore(Tail(sorted), x)
         ELSE << x >> \o sorted

\* sorted(sentiment_data, key=lambda x: x["composite_score"])
RECURSIVE SortedByScore(_, _)
SortedByScore(xs, acc) ==
    IF xs = << >> THEN acc
    ELSE SortedByScore(Tail(xs), InsertByScore(acc, Head(xs)))

\* xs[:n] for n >= 0
FirstN(xs, n) == SubSeq(xs, 1, IF n < Len(xs) THEN n ELSE Len(xs))

\* xs[-n:] for n >= 0; -0 is 0, so xs[-0:] is all of xs
LastN(xs, n) ==
    IF n = 0 \/ n >= Len(xs) THEN xs
    ELSE SubSeq(xs, Len(xs) - n + 1, Len(xs))

Peaks(sorted_by_score, n) ==
    [ most_negative |-> FirstN(sorted_by_score, n),
      most_positive |-> Reverse(LastN(sorted_by_score, n)) ]

\* SentimentAnalysis.find_emotional_peaks
find_emotional_peaks(sentiment_data, n) ==
    Peaks(SortedByScore(sentiment_data, << >>), n)

\* dict(Counter(s["classification"] for s in ...))
ClassificationCounts(entries) ==
    [ c \in { entries[k].classification : k \in DOMAIN entries } |->
        Cardinality({ k \in DOMAIN entries : entries[k].classification = c }) ]

SeqMin(ns) == CHOOSE m \in { ns[k] : k \in DOMAIN ns } :
                  \A k \in DOMAIN ns : m <= ns[k]

SeqMax(ns) == CHOOSE m \in { ns[k] : k \in DOMAIN ns } :
                  \A k \in DOMAIN ns : m >= ns[k]

\* the statistics of the sentences of one theme; mean_sentiment is
\* sum_sentiment over sentence_count
ThemeStatistics(sentences, scores) ==
    [ sentence_count |-> Len(sentences),
      sum_sentiment |-> SeqSum(scores),
      min_sentiment |-> SeqMin(scores),
      max_sentiment |-> SeqMax(scores),
      classification_counts |-> ClassificationCounts(sentences) ]

ScoresOf(entries) == [ k \in 1 .. Len(entries) |-> entries[k].composite_score ]

OfTheme(entries, theme_id) ==
    SelectSeq(entries, LAMBDA s : s.theme_id = theme_id)

ThemeStatisticsOf(sentences) == ThemeStatistics(sentences, ScoresOf(sentences))

\* SentimentAnalysis.calculate_theme_statistics
calculate_theme_statistics(sentiment_data) ==
    [ t \in { sentiment_data[k].theme_id : k \in DOMAIN sentiment_data } |->
        ThemeStatisticsOf(OfTheme(sentiment_data, t)) ]

\* overall_stats; mean_composite is sum_composite over total_sentences
OverallSentiment(sentiment_data) ==
    [ total_sentences |-> Len(sentiment_data),
      classification_counts |-> ClassificationCounts(sentiment_data),
      sum_composite |-> SeqSum(ScoresOf(sentiment_data)) ]

SentimentData(sentiment_data, peak_count, lexicon) ==
    [ sentence_sentiments |-> sentiment_data,
      emotional_peaks |-> find_emotional_peaks(sentiment_data, peak_count),
      theme_statistics |-> calculate_theme_statistics(sentiment_data),
      overall_statistics |-> OverallSentiment(sentiment_data),
      custom_lexicon |-> lexicon ]

\* the lexicon load_lexicon returns
DomainTerms(domain) ==
    IF IsDomain(domain) THEN MergedTerms(domain.lexicons, EmptyDict)
    ELSE EmptyDict

\* self._vader.lexicon.update(lexicon), if self._vader and lexicon
UpdatedVader(self, lexicon) ==
    IF self.vader /\ DOMAIN lexicon # {}
    THEN Update(self.vader_lexicon, lexicon)
    ELSE self.vader_lexicon

\* SentimentAnalysis.load_lexicon: the instance with self._lexicon assigned
load_lexicon(self, lexicon) ==
    [ self EXCEPT !.lexicon = lexicon,
                  !.vader_lexicon = UpdatedVader(self, lexicon) ]

SentimentOutput(self, atoms, peak_count, e) ==
    Returned(self,
        make_output(self,
            SentimentData(analyze_all_sentences(self, atoms, e), peak_count,
                          self.lexicon),
            [ vader_available |-> e.vader,
              textblob_available |-> e.textblob,
              lexicon_terms |-> Cardinality(DOMAIN self.lexicon) ]))

\* the output when a backend is missing
SentimentUnavailable(self) ==
    Returned(self,
        make_output(self,
            [ error |-> "vaderSentiment and textblob are required" ],
            [ sentiment_available |-> FALSE ]))

\* an exception leaves analyze: there is no output
Raise(exc) == [ raised |-> exc ]

\* analyze_sentence passes its guard and then uses an analyzer that is not
\* there: self._vader is None, or the name TextBlob is None
UsesMissingAnalyzer(self, e) ==
    SENTIMENT_AVAILABLE(e) /\ (~self.vader \/ ~e.textblob)

\* analyze past its guard: the lexicon is loaded and the sentences scored
SentimentRun(self, atoms, peak_count, e) ==
    IF atoms # << >> /\ UsesMissingAnalyzer(self, e)
    THEN Returned(self, Raise("TypeError"))
    ELSE SentimentOutput(self, atoms, peak_count, e)

\* SentimentAnalysis.analyze
SentimentAnalyze(self, atoms, domain, config, e) ==
    IF ~SENTIMENT_AVAILABLE(e)
    THEN SentimentUnavailable([ self EXCEPT !.config = config ])
    ELSE SentimentRun(
             load_lexicon([ self EXCEPT !.config = config ],
                          DomainTerms(domain)),
             atoms, Get(config, "peak_count", 10), e)

--------------------------------------------------------------------------
(* TemporalAnalysis *)

TEMPORAL_ADVERBS ==
    << "then", "now", "later", "before", "after", "once", "when", "while",
       "during", "until", "since", "ago", "soon", "already", "eventually",
       "finally", "previously", "formerly", "currently" >>

PAST_INDICATORS ==
    << "was", "were", "had", "did", "went", "saw", "told", "asked" >>

PRESENT_INDICATORS ==
    << "is", "are", "am", "do", "does", "see", "tell", "ask" >>

FUTURE_INDICATORS ==
    << "will", "shall", "going to", "would", "could", "might" >>

FLASHBACK_SIGNALS ==
    << "remember", "recalled", "looking back", "once upon", "used to",
       "in the past", "back then", "years ago", "deployment" >>

FLASHFORWARD_SIGNALS ==
    << "will be asked", "years later", "in the future", "someday",
       "when I return", "back home", "after the war" >>

\* w in text
Contains(text, w) == \E k \in DOMAIN text : text[k] = w

\* [w for w in list if w in text]
Found(list, text) == SelectSeq(list, LAMBDA w : Contains(text, w))

\* any(signal in text for signal in list)
AnyIn(list, text) == \E k \in DOMAIN list : Contains(text, list[k])

\* the Tense the model's morphological analysis gives a verb
MorphTense(w) ==
    CASE w = "was"      -> "past"
      [] w = "remember" -> "present"
      [] OTHER          -> "none"

TenseCount(text, tense) ==
    Cardinality({ k \in DOMAIN text : MorphTense(text[k]) = tense })

\* max(counts, key=counts.get): the first of past, present, future that
\* has the largest count
ArgMax(counts) ==
    IF counts.past >= counts.present /\ counts.past >= counts.future
    THEN "past"
    ELSE IF counts.present >= counts.future THEN "present" ELSE "future"

IsZero(counts) == counts.past = 0 /\ counts.present = 0 /\ counts.future = 0

\* the keyword scan of detect_tense
KeywordCounts(text) ==
    [ past    |-> Len(Found(PAST_INDICATORS, text)),
      present |-> Len(Found(PRESENT_INDICATORS, text)),
      future  |-> Len(Found(FUTURE_INDICATORS, text)) ]

KeywordTense(counts) == IF IsZero(counts) THEN "ambiguous" ELSE ArgMax(counts)

\* the counts of the morphological analysis
MorphCounts(text) ==
    [ past    |-> TenseCount(text, "past"),
      present |-> TenseCount(text, "present"),
      future  |-> TenseCount(text, "future") ]

ModelTense(counts, text) ==
    IF ~IsZero(counts) THEN ArgMax(counts)
    ELSE KeywordTense(KeywordCounts(text))

\* TemporalAnalysis.detect_tense
detect_tense(self, text) ==
    IF self.nlp THEN ModelTense(MorphCounts(text), text)
    ELSE KeywordTense(KeywordCounts(text))

\* TemporalAnalysis.extract_temporal_markers
extract_temporal_markers(text) == Found(TEMPORAL_ADVERBS, text)

\* TemporalAnalysis.detect_narrative_shifts
detect_narrative_shifts(text) ==
    [ is_flashback |-> AnyIn(FLASHBACK_SIGNALS, text),
      is_flashforward |-> AnyIn(FLASHFORWARD_SIGNALS, text),
      is_linear |-> ~(AnyIn(FLASHBACK_SIGNALS, text)
                      \/ AnyIn(FLASHFORWARD_SIGNALS, text)) ]

\* one entry of temporal_data (texts are shorter than the 100 characters
\* they are cut at)
TemporalEntry(number, atom, tense, markers, shifts) ==
    [ sentence_id |-> number,
      theme_id |-> atom.theme_id,
      text |-> atom.text,
      tense |-> tense,
      temporal_markers |-> markers,
      is_flashback |-> shifts.is_flashback,
      is_flashforward |-> shifts.is_flashforward,
      narrative_type |->
          IF shifts.is_flashback THEN "flashback"
          ELSE IF shifts.is_flashforward THEN "flashforward" ELSE "linear" ]

\* TemporalAnalysis.analyze_sentences: the list it returns
analyze_sentences(self, atoms) ==
    [ i \in 1 .. Len(atoms) |->
        TemporalEntry(i, atoms[i], detect_tense(self, atoms[i].text),
                      extract_temporal_markers(atoms[i].text),
                      detect_narrative_shifts(atoms[i].text)) ]

\* dict(Counter(s["tense"] for s in ...))
TenseCounts(entries) ==
    [ t \in { entries[k].tense : k \in DOMAIN entries } |->
        Cardinality({ k \in DOMAIN entries : entries[k].tense = t }) ]

\* variant: the counts of the call before are kept
ClearedNot(distribution) == distribution

\* self._tense_distribution.clear()
Cleared(distribution) == EmptyDict

\* self._tense_distribution[theme_id][tense] += 1 for every sentence
AddCounts(distribution, counted) ==
    [ th \in DOMAIN distribution \cup DOMAIN counted |->
        [ t \in DOMAIN Get(distribution, th, EmptyDict)
                  \cup DOMAIN Get(counted, th, EmptyDict) |->
            Get(Get(distribution, th, EmptyDict), t, 0)
                + Get(Get(counted, th, EmptyDict), t, 0) ] ]

CountedByTheme(entries) ==
    [ th \in { entries[k].theme_id : k \in DOMAIN entries } |->
        TenseCounts(SelectSeq(entries, LAMBDA s : s.theme_id = th)) ]

\* self._tense_distribution after analyze_sentences: cleared, then one
\* count per sentence under its theme
TenseDistribution(self, entries) ==
    AddCounts(Cleared(self.tense_distribution), CountedByTheme(entries))

CountWhere(entries, Test(_)) ==
    Cardinality({ k \in DOMAIN entries : Test(entries[k]) })

OverallTemporal(entries) ==
    [ total_sentences |-> Len(entries),
      tense_counts |-> TenseCounts(entries),
      flashback_count |-> CountWhere(entries, LAMBDA s : s.is_flashback),
      flashforward_count |-> CountWhere(entries, LAMBDA s : s.is_flashforward),
      linear_count |->
          CountWhere(entries, LAMBDA s : s.narrative_type = "linear") ]

\* TemporalAnalysis.generate_sankey_data: the links theme -> tense
generate_sankey_data(tense_distribution) ==
    [ link \in { << th, t >> \in
                   (DOMAIN tense_distribution)
                       \X { "past", "present", "future", "ambiguous" } :
                   Get(tense_distribution[th], t, 0) > 0 } |->
        tense_distribution[link[1]][link[2]] ]

TemporalData(entries, distribution, include_sankey) ==
    [ sentence_analysis |-> entries,
      theme_tense_distribution |-> distribution,
      overall_statistics |-> OverallTemporal(entries),
      sankey_data |-> IF include_sankey THEN generate_sankey_data(distribution)
                      ELSE EmptyDict,
      has_sankey_data |-> include_sankey ]

TemporalOutput(self, entries, distribution, include_sankey, e) ==
    Returned([ self EXCEPT !.tense_distribution = distribution ],
        make_output(self,
            TemporalData(entries, distribution, include_sankey),
            [ spacy_available |-> e.spacy,
              spacy_model |-> IF self.nlp THEN "en_core_web_sm" ELSE "None" ]))

TemporalRun(self, entries, include_sankey, e) ==
    TemporalOutput(self, entries, TenseDistribution(self, entries),
                   include_sankey, e)

\* TemporalAnalysis.analyze
TemporalAnalyze(self, atoms, domain, config, e) ==
    TemporalRun([ self EXCEPT !.config = config ],
                analyze_sentences(self, atoms),
                Get(config, "include_sankey", TRUE), e)

\* module.analyze(corpus, domain, config), dispatched on the class
AnalyzeOf(self, atoms, domain, config, e) ==
    CASE self.cls = "EntityAnalysis" ->
            EntityAnalyze(self, atoms, domain, config, e)
      [] self.cls = "SentimentAnalysis" ->
            SentimentAnalyze(self, atoms, domain, config, e)
      [] self.cls = "TemporalAnalysis" ->
            TemporalAnalyze(self, atoms, domain, config, e)

--------------------------------------------------------------------------
(* The registry, and a process that creates module instances and calls     *)
(* analyze on them.                                                        *)

\* a dict with the one entry key: value
Entry(key, value) == [ k \in { key } |-> value ]

\* what the imports of setup_framework leave registered
InitialRegistry ==
    [ analysis |-> [ entity |-> "EntityAnalysis",
                     sentiment |-> "SentimentAnalysis",
                     temporal |-> "TemporalAnalysis" ],
      adapters |-> [ evaluation_dashboard |-> "EvaluationDashboardAdapter" ],
      domains  |-> [ n \in { d.name : d \in DomainProfiles } |->
                       CHOOSE d \in DomainProfiles : d.name = n ],
      schemas  |-> [ default |-> "AtomizationSchema" ] ]

\* variant: a name that is taken keeps its first class
register_keep_first(reg, namespace, name, cls) ==
    IF name \in DOMAIN reg[namespace] THEN reg
    ELSE [ reg EXCEPT ![namespace] = Update(@, Entry(name, cls)) ]

\* registry.register_analysis(name)(cls), registry.register_adapter(name)(cls)
register(reg, namespace, name, cls) ==
    [ reg EXCEPT ![namespace] = Update(@, Entry(name, cls)) ]

AnalysisClasses == { "EntityAnalysis", "SentimentAnalysis", "TemporalAnalysis" }

AdapterClasses == { "EvaluationDashboardAdapter", "PluginAdapter" }

\* the names plugins register classes under, and the names asked for
AnalysisNames == { "entity", "plugin" }
AdapterNames == { "evaluation_dashboard", "plugin" }
CreateNames == { "entity", "sentiment", "temporal", "plugin" }

\* the processes: which optional packages import, whether the model loads,
\* and the order the hash seed gives the sets of strings that the merge of
\* model and pattern entities lists
Envs ==
    { e \in [ vader : BOOLEAN, textblob : BOOLEAN, spacy : BOOLEAN,
              model : BOOLEAN, hash_seed : { 0, 1 } ] :
        /\ e.model => e.spacy
        /\ e.hash_seed = 1 => e.model }

\* the config mappings that mean something to a class
ConfigsOf(cls) ==
    CASE cls = "EntityAnalysis" ->
            { c \in Configs : DOMAIN c \subseteq { "use_spacy" } }
      [] cls = "SentimentAnalysis" ->
            { c \in Configs : DOMAIN c \subseteq { "peak_count" } }
      [] cls = "TemporalAnalysis" ->
            { c \in Configs : DOMAIN c \subseteq { "include_sankey" } }
      [] OTHER -> { EmptyDict }

\* the processes that differ in what a constructor finds: TextBlob and the
\* hash seed are used by analyze only
ConstructorEnvs == { e \in Envs : e.textblob = e.vader /\ e.hash_seed = 0 }

InitRegistry ==
    /\ registry = InitialRegistry
    /\ instances = << >>
    /\ calls = << >>
    /\ env \in ConstructorEnvs
    /\ corpus_atoms = << >>
    /\ last_create = NoCreate
    /\ last_register = NoRegister
    /\ IdleAtom
    /\ IdleRun
    /\ IdleTool

InitModules ==
    /\ registry = InitialRegistry
    /\ instances = << >>
    /\ calls = << >>
    /\ env \in Envs
    /\ corpus_atoms \in Corpora
    /\ last_create = NoCreate
    /\ last_register = NoRegister
    /\ IdleAtom
    /\ IdleRun
    /\ IdleTool

RegisterAnalysis ==
    \E name \in AnalysisNames, cls \in AnalysisClasses :
        /\ registry' = register(registry, "analysis", name, cls)
        /\ UNCHANGED << instances, calls, env, corpus_atoms, last_create,
                        atomVars, runVars,
                    toolVars >>
        /\ last_register' = Registration("analysis", name, cls)

RegisterAdapter ==
    \E name \in AdapterNames, cls \in AdapterClasses :
        /\ registry' = register(registry, "adapters", name, cls)
        /\ UNCHANGED << instances, calls, env, corpus_atoms, last_create,
                        atomVars, runVars,
                    toolVars >>
        /\ last_register' = Registration("adapters", name, cls)

\* variant: one instance per class, handed out again with what it holds
ConstructedShared(insts, cls, e) ==
    IF \E k \in DOMAIN insts : insts[k].cls = cls
    THEN Append(insts, insts[CHOOSE k \in DOMAIN insts : insts[k].cls = cls])
    ELSE Append(insts, NewInstance(cls, e))

\* cls(): the objects of the process with a newly constructed one added
Constructed(insts, cls, e) == Append(insts, NewInstance(cls, e))

\* variant: a name that is not registered gives an instance all the same
CreateUnchecked(namespace, name) ==
    /\ Len(instances) < MaxInstances
    /\ instances' = Constructed(instances,
                                Get(registry[namespace], name, "object"), env)
    /\ last_create' = Created("created", namespace, name)

\* create_analysis(name), create_adapter(name): a new instance of the
\* registered class, or NotFoundError and nothing created
Create(namespace, name) ==
    IF name \in DOMAIN registry[namespace]
    THEN /\ Len(instances) < MaxInstances
         /\ instances' = Constructed(instances, registry[namespace][name], env)
         /\ last_create' = Created("created", namespace, name)
    ELSE /\ instances' = instances
         /\ last_create' = Created("NotFoundError", namespace, name)

CreateAnalysisIn(names) ==
    \E name \in names :
        /\ Create("analysis", name)
        /\ UNCHANGED << registry, calls, env, corpus_atoms, last_register,
                        atomVars, runVars,
                    toolVars >>

\* create_analysis with any name, registered or not
CreateAnalysis == CreateAnalysisIn(CreateNames)

\* create_analysis with the name of a module to run
CreateModule == CreateAnalysisIn(DOMAIN registry.analysis)

CreateAdapterIn(names) ==
    \E name \in names :
        /\ Create("adapters", name)
        /\ UNCHANGED << registry, calls, env, corpus_atoms, last_register,
                        atomVars, runVars,
                    toolVars >>

\* create_adapter with any name, registered or not
CreateAdapter == CreateAdapterIn(AdapterNames \cup { "nosuch" })

\* create_adapter with the name of an adapter to generate with
CreateVisualization == CreateAdapterIn(DOMAIN registry.adapters)

\* the record of one analyze call
Call(inst, domain, config, returned) ==
    [ inst |-> inst, domain |-> domain, config |-> config,
      self |-> returned.self, out |-> returned.out ]

\* variant: the entities are stored on the sentence atom itself
SentenceAnnotated(sent, entities) ==
    Update(sent, Entry("entities", entities))

\* annotate_corpus: the sentence atom after its entities were put into the
\* new dict enhanced_sent; sent.id and sent.text are only read
SentenceRead(sent, entities) == sent

\* the atoms of the corpus as analyze of the instance leaves them: the
\* entity module goes over the atoms themselves, the other two over
\* iter_atoms, and none assigns to an atom
CorpusAfter(self, atoms, e) ==
    IF self.cls = "EntityAnalysis"
    THEN [ i \in 1 .. Len(atoms) |->
             SentenceRead(atoms[i],
                 extract_entities(self, atoms[i].text, e.hash_seed)) ]
    ELSE atoms

\* the call is recorded, and the instance and the corpus are as the call
\* left them
Called(call) ==
    /\ calls' = Append(calls, call)
    /\ instances' = [ instances EXCEPT ![call.inst] = call.self ]
    /\ corpus_atoms' = CorpusAfter(call.self, corpus_atoms, env)

\* instances[i].analyze(corpus, domain, config)
Analyze ==
    \E i \in DOMAIN instances, domain \in Domains :
        \E config \in ConfigsOf(instances[i].cls) :
            /\ Len(calls) < MaxCalls
            /\ instances[i].cls \in AnalysisClasses
            /\ Called(Call(i, domain, config,
                   AnalyzeOf(instances[i], corpus_atoms, domain, config, env)))
            /\ UNCHANGED << registry, env, last_create, last_register,
                            atomVars, runVars,
                    toolVars >>

NextRegistry ==
    \/ RegisterAnalysis
    \/ RegisterAdapter
    \/ CreateAnalysis
    \/ CreateAdapter

SpecRegistry == InitRegistry /\ [][NextRegistry]_vars

NextModules == CreateModule \/ CreateVisualization \/ Analyze

SpecModules == InitModules /\ [][NextModules]_vars

--------------------------------------------------------------------------
(* The migrate command.  A project directory is a path below projects/:    *)
(* <<name>> or <<category, name>>.  The disk holds the project             *)
(* directories with their project.yaml, the category directories, and the  *)
(* projects a re-atomization was started for.                              *)

\* the project.yaml of a project before any migration
OldConfig(name) ==
    [ strategy |-> "legacy", name |-> name, migrated_from |-> "none" ]

\* projects_dir / category / new_name, or projects_dir / new_name
TargetDir(category, new_name) ==
    IF category # "none" THEN << category, new_name >> ELSE << new_name >>

\* the category directory a path lies in, if any
CategoriesOf(paths) == { path[1] : path \in { q \in paths : Len(q) = 2 } }

\* a disk with these project directories, none migrated
DiskWith(paths) ==
    [ projects |-> [ path \in paths |-> OldConfig(path[Len(path)]) ],
      categories |-> CategoriesOf(paths),
      atomized |-> {} ]

\* the command lines: args.project names the project at source when it is
\* found; --category, --new-name or --shorten, --naming, --re-atomize,
\* --dry-run
MigrateArgs ==
    [ found : BOOLEAN,
      source : { << "tomb" >>, << "lit", "tomb" >> },
      category : { "none", "lit", "new" },
      new_name : { "tomb", "short" },
      naming : { "hybrid", "uuid" },
      re_atomize : BOOLEAN,
      dry_run : BOOLEAN ]

\* the in-memory config after the updates of cmd_migrate
UpdatedConfig(config, args) ==
    [ strategy |-> args.naming,
      name |-> IF args.new_name # args.source[Len(args.source)]
               THEN args.new_name ELSE config.name,
      migrated_from |-> args.source[Len(args.source)] ]

InitMigrate ==
    /\ \E args \in MigrateArgs, yaml \in BOOLEAN, taken \in BOOLEAN :
          LET there == (IF args.found THEN { args.source } ELSE {})
                         \cup (IF taken
                               THEN { TargetDir(args.category, args.new_name) }
                               ELSE {})
          IN  migration = [ args |-> args, yaml |-> yaml, pc |-> "start",
                            exit_code |-> -1, config |-> << >>,
                            disk |-> DiskWith(there),
                            before |-> DiskWith(there) ]
    /\ session = << >> /\ launcher = << >> /\ embed = << >>
    /\ peaks = << >>
    /\ IdleAtom
    /\ IdleRun
    /\ IdleMod

MigrateFrame ==
    UNCHANGED << session, launcher, embed, peaks, atomVars, runVars, modVars >>

\* the command returns
Returns(code) ==
    [ migration EXCEPT !.pc = "exited", !.exit_code = code ]

\* except ImportError: return 1
YamlMissing ==
    /\ migration.pc = "start"
    /\ ~migration.yaml
    /\ migration' = Returns(1)
    /\ MigrateFrame

\* source_dir is None: return 1
MigrateProjectNotFound ==
    /\ migration.pc = "start"
    /\ migration.yaml
    /\ ~migration.args.found
    /\ migration' = Returns(1)
    /\ MigrateFrame

\* the target of the run
Target == TargetDir(migration.args.category, migration.args.new_name)

\* target_dir.exists() and target_dir != source_dir: return 1
TargetExists ==
    /\ migration.pc = "start"
    /\ migration.yaml
    /\ migration.args.found
    /\ Target \in DOMAIN migration.disk.projects
    /\ Target # migration.args.source
    /\ migration' = Returns(1)
    /\ MigrateFrame

\* variant: --dry-run is not looked at
NextStepWet(args) == "mkdir"

\* if args.dry_run: ... return 0
NextStep(args) == IF args.dry_run THEN "dry_run" ELSE "mkdir"

\* project.yaml is read and the config updated in memory
LoadConfig ==
    /\ migration.pc = "start"
    /\ migration.yaml
    /\ migration.args.found
    /\ ~(Target \in DOMAIN migration.disk.projects
           /\ Target # migration.args.source)
    /\ migration' =
          [ migration EXCEPT
              !.config = UpdatedConfig(
                             migration.disk.projects[migration.args.source],
                             migration.args),
              !.pc = NextStep(migration.args) ]
    /\ MigrateFrame

\* [DRY RUN]: the changes are printed; return 0
DryRun ==
    /\ migration.pc = "dry_run"
    /\ migration' = Returns(0)
    /\ MigrateFrame

\* (projects_dir / category).mkdir(parents=True, exist_ok=True)
MakeCategoryDir ==
    /\ migration.pc = "mkdir"
    /\ migration' =
          [ migration EXCEPT
              !.disk.categories =
                  IF migration.args.category # "none"
                  THEN @ \cup { migration.args.category } ELSE @,
              !.pc = "move" ]
    /\ MigrateFrame

\* the project directories after shutil.move(source_dir, target_dir)
Moved(projects, source, target) ==
    [ path \in (DOMAIN projects \ { source }) \cup { target } |->
        IF path = target THEN projects[source] ELSE projects[path] ]

\* if target_dir != source_dir: shutil.move
MoveProject ==
    /\ migration.pc = "move"
    /\ migration' =
          [ migration EXCEPT
              !.disk.projects =
                  IF Target # migration.args.source
                  THEN Moved(@, migration.args.source, Target) ELSE @,
              !.pc = "write" ]
    /\ MigrateFrame

\* yaml.dump(config, f) into target_dir / "project.yaml"
WriteConfig ==
    /\ migration.pc = "write"
    /\ migration' =
          [ migration EXCEPT
              !.disk.projects = [ @ EXCEPT ![Target] = migration.config ],
              !.pc = "re_atomize" ]
    /\ MigrateFrame

\* if args.re_atomize: the atomize command is run for the project;
\* "Migration complete!", return 0
ReAtomize ==
    /\ migration.pc = "re_atomize"
    /\ migration' =
          [ migration EXCEPT
              !.disk.atomized =
                  IF migration.args.re_atomize THEN @ \cup { Target } ELSE @,
              !.pc = "exited",
              !.exit_code = 0 ]
    /\ MigrateFrame

NextMigrate ==
    \/ YamlMissing
    \/ MigrateProjectNotFound
    \/ TargetExists
    \/ LoadConfig
    \/ DryRun
    \/ MakeCategoryDir
    \/ MoveProject
    \/ WriteConfig
    \/ ReAtomize

SpecMigrate == InitMigrate /\ [][NextMigrate]_vars

--------------------------------------------------------------------------
(* find_emotional_peaks on its own: any list of sentence sentiments and    *)
(* any peak count.                                                         *)

\* most sentences in a list
MaxPeakSentences == 3

\* largest peak count
MaxPeakCount == 4

\* the composite scores a sentence can have
PeakScores == { -2, -1, 0, 1, 2 }

\* the sentence sentiments: numbered in order, each with a score
SentimentLists ==
    UNION { { [ i \in 1 .. len |->
                  [ sentence_id |-> i, composite_score |-> scores[i] ] ] :
              scores \in [ 1 .. len -> PeakScores ] } :
            len \in 0 .. MaxPeakSentences }

InitPeaks ==
    /\ \E data \in SentimentLists, n \in 0 .. MaxPeakCount :
          peaks = [ sentiment_data |-> data, n |-> n, pc |-> "call",
                    out |-> << >> ]
    /\ migration = << >> /\ session = << >> /\ launcher = << >>
    /\ embed = << >>
    /\ IdleAtom
    /\ IdleRun
    /\ IdleMod

\* peaks = self.find_emotional_peaks(sentiment_data, n=peak_count)
FindPeaks ==
    /\ peaks.pc = "call"
    /\ peaks' = [ peaks EXCEPT
                    !.out = find_emotional_peaks(peaks.sentiment_data, peaks.n),
                    !.pc = "returned" ]
    /\ UNCHANGED << migration, session, launcher, embed,
                    atomVars, runVars, modVars >>

SpecPeaks == InitPeaks /\ [][FindPeaks]_vars

--------------------------------------------------------------------------
(* The web app's analysis page (app/streamlit_app.py) and the Corpus       *)
(* Observatory's text detail view.  session is st.session_state after the  *)
(* page has been rendered once; every action is one run of the script on   *)
(* a user event, or the run that follows an st.rerun().                    *)

\* the members of AnalysisState
READY == "AnalysisState.READY"
ANALYZING == "AnalysisState.ANALYZING"
COMPLETE == "AnalysisState.COMPLETE"
ERROR == "AnalysisState.ERROR"

\* None as a text or a title, and None as the stored results
PyNone == "None"
NoResults == [ kind |-> "None" ]

\* the documents a user uploads and the texts of the corpus: text and title
UploadedDocuments ==
    { [ text |-> "essay text", title |-> "essay" ],
      [ text |-> "letter text", title |-> "letter" ] }

CorpusTexts ==
    { [ text |-> "odyssey text", title |-> "Odyssey" ],
      [ text |-> "essay text", title |-> "Essay" ] }

\* what run_analysis computes for a text and a title, and its empty result
ResultsFor(text, title) ==
    [ kind |-> "results", of_text |-> text, of_title |-> title ]
EmptyResults == [ kind |-> "empty" ]

\* the value the Observatory stores in analysis_state is the string
\* "ANALYZING"; whether AnalysisState.ANALYZING compares equal to it is
\* fixed by the AnalysisState class
StoredAnalyzing(members_are_strings) ==
    IF members_are_strings THEN ANALYZING ELSE "ANALYZING"

\* render_analyze_page, its first lines: the missing keys are initialised
InitApp ==
    /\ \E members_are_strings \in BOOLEAN :
          session = [ analysis_state |-> READY,
                      analysis_results |-> NoResults,
                      document_title |-> PyNone,
                      uploaded_text |-> PyNone,
                      returned |-> NoResults,
                      members_are_strings |-> members_are_strings ]
    /\ migration = << >>
    /\ launcher = << >>
    /\ embed = << >>
    /\ peaks = << >>
    /\ IdleAtom
    /\ IdleRun
    /\ IdleMod

AppFrame ==
    UNCHANGED << migration, launcher, embed, peaks,
                 atomVars, runVars, modVars >>

\* READY: the upload section takes a document and starts its analysis
Upload ==
    \E doc \in UploadedDocuments :
        /\ session.analysis_state = READY
        /\ session' = [ session EXCEPT !.uploaded_text = doc.text,
                                       !.document_title = doc.title,
                                       !.analysis_state = ANALYZING ]
        /\ AppFrame

\* variant: the result is stored and shown whatever it is
AnalyzedUnchecked(found) ==
    [ session EXCEPT !.analysis_results = found,
                     !.analysis_state = COMPLETE,
                     !.returned = found ]

\* the two ends of the ANALYZING branch
Analyzed(found) ==
    IF found # EmptyResults
    THEN [ session EXCEPT !.analysis_results = found,
                          !.analysis_state = COMPLETE,
                          !.returned = found ]
    ELSE [ session EXCEPT !.analysis_state = ERROR,
                          !.returned = found ]

\* ANALYZING: run_analysis on the stored text and title
RunAnalysis ==
    \E found \in { ResultsFor(session.uploaded_text, session.document_title),
                     EmptyResults } :
        /\ session.analysis_state = ANALYZING
        /\ session' = Analyzed(found)
        /\ AppFrame

\* COMPLETE: "Analyze Another Document"
AnalyzeAnother ==
    /\ session.analysis_state = COMPLETE
    /\ session' = [ session EXCEPT !.analysis_state = READY,
                                   !.analysis_results = NoResults,
                                   !.document_title = PyNone,
                                   !.uploaded_text = PyNone ]
    /\ AppFrame

\* ERROR: "Try Again"
TryAgain ==
    /\ session.analysis_state = ERROR
    /\ session' = [ session EXCEPT !.analysis_state = READY ]
    /\ AppFrame

\* render_text_detail: "Analyze with LingFrame", whatever the analysis
\* page's state is
AnalyzeWithLingFrame ==
    \E doc \in CorpusTexts :
        /\ session' = [ session EXCEPT
                          !.uploaded_text = doc.text,
                          !.document_title = doc.title,
                          !.analysis_state =
                              StoredAnalyzing(session.members_are_strings) ]
        /\ AppFrame

NextApp ==
    \/ Upload
    \/ RunAnalysis
    \/ AnalyzeAnother
    \/ TryAgain
    \/ AnalyzeWithLingFrame

SpecApp == InitApp /\ [][NextApp]_vars

--------------------------------------------------------------------------
(* The desktop launcher (desktop/launcher.py): main, StreamlitServer and   *)
(* the Streamlit subprocess.  launcher.pc is where the main thread is;     *)
(* the handlers of SIGINT and SIGTERM raise SystemExit in the main thread  *)
(* wherever it is.                                                         *)

\* signals delivered to one launcher
MaxSignals == 3

\* the steps of StreamlitServer.stop
StopSteps == { "stop", "stop_wait", "stop_kill", "stop_clear" }

\* main after the cleanup handlers were registered; ending is the way the
\* launcher ends: start-up timeout, window closed, window failed, signal
InitLauncher ==
    /\ launcher = [ pc |-> "start",
                    caller |-> "main",
                    ending |-> "None",
                    process |-> "None",
                    child |-> "none",
                    terminates |-> 0,
                    kills |-> 0,
                    signals |-> 0,
                    interrupted |-> FALSE ]
    /\ migration = << >>
    /\ session = << >>
    /\ embed = << >>
    /\ peaks = << >>
    /\ IdleAtom
    /\ IdleRun
    /\ IdleMod

LauncherFrame ==
    UNCHANGED << migration, session, embed, peaks,
                 atomVars, runVars, modVars >>

\* stop is called by caller
Stopping(l, caller) == [ l EXCEPT !.pc = "stop", !.caller = caller ]

\* where the main thread goes when stop returns to its caller: start returns
\* False and main calls sys.exit(1), the finally block ends and main
\* returns, or the exit handler ends; the interpreter then runs cleanup
AfterStop(l) ==
    IF l.caller = "atexit" THEN [ l EXCEPT !.pc = "exited" ]
    ELSE Stopping(l, "atexit")

\* run_streamlit_server: subprocess.Popen returns
Spawn ==
    /\ launcher.pc = "start"
    /\ launcher' =
        [ launcher EXCEPT !.pc = "spawned", !.child = "running" ]
    /\ LauncherFrame

\* self.process = run_streamlit_server(self.port)
AssignProcess ==
    /\ launcher.pc = "spawned"
    /\ launcher' =
        [ launcher EXCEPT !.pc = "waiting", !.process = "Popen" ]
    /\ LauncherFrame

\* wait_for_server returns True: main enters the try block
ServerReady ==
    /\ launcher.pc = "waiting"
    /\ launcher' =
        [ launcher EXCEPT !.pc = "window" ]
    /\ LauncherFrame

\* wait_for_server returns False: start calls self.stop()
StartTimeout ==
    /\ launcher.pc = "waiting"
    /\ launcher' =
        [ Stopping(launcher, "start") EXCEPT !.ending = "timeout" ]
    /\ LauncherFrame

\* webview.start() returns: the finally block calls cleanup
WindowClosed ==
    /\ launcher.pc = "window"
    /\ launcher' =
        [ Stopping(launcher, "finally") EXCEPT !.ending = "closed" ]
    /\ LauncherFrame

\* create_window raises, or exits for the missing webview
WindowFailed ==
    /\ launcher.pc = "window"
    /\ launcher' =
        [ Stopping(launcher, "finally") EXCEPT !.ending = "failed" ]
    /\ LauncherFrame

\* stop: if self.process, self.process.terminate()
Terminate(l) ==
    IF l.process = "None" THEN AfterStop(l)
    ELSE [ l EXCEPT !.pc = "stop_wait", !.terminates = @ + 1 ]

StopTerminate ==
    /\ launcher.pc = "stop"
    /\ launcher' =
        Terminate(launcher)
    /\ LauncherFrame

\* the subprocess exits on the SIGTERM it was sent
ChildExits ==
    /\ launcher.pc # "exited"
    /\ launcher.child = "running"
    /\ launcher.terminates > 0
    /\ launcher' = [ launcher EXCEPT !.child = "exited" ]
    /\ LauncherFrame

\* self.process.wait(timeout=5) returns: the subprocess has exited
WaitReturns ==
    /\ launcher.child = "exited"
    /\ launcher.pc = "stop_wait"
    /\ launcher' =
        [ launcher EXCEPT !.pc = "stop_clear" ]
    /\ LauncherFrame

\* self.process.wait(timeout=5) raises TimeoutExpired
WaitTimesOut ==
    /\ launcher.child = "running"
    /\ launcher.pc = "stop_wait"
    /\ launcher' =
        [ launcher EXCEPT !.pc = "stop_kill" ]
    /\ LauncherFrame

\* self.process.kill(); self.process.wait()
Kill ==
    /\ launcher.pc = "stop_kill"
    /\ launcher' =
        [ launcher EXCEPT !.pc = "stop_clear", !.child = "exited",
                          !.kills = @ + 1 ]
    /\ LauncherFrame

\* self.process = None, and stop returns
ClearProcess ==
    /\ launcher.pc = "stop_clear"
    /\ launcher' =
        AfterStop([ launcher EXCEPT !.process = "None" ])
    /\ LauncherFrame

\* SystemExit raised at the step the main thread is at: inside the try block
\* the finally block runs; inside the exit handler the exception is reported
\* and the interpreter goes on exiting; elsewhere it leaves main
Raised_SystemExit(l) ==
    IF l.pc = "window" THEN Stopping(l, "finally")
    ELSE IF l.pc \in StopSteps /\ l.caller = "atexit"
         THEN [ l EXCEPT !.pc = "exited" ]
         ELSE Stopping(l, "atexit")

\* SIGINT or SIGTERM: lambda s, f: sys.exit(0)
Signal ==
    /\ launcher.pc # "exited"
    /\ launcher.signals < MaxSignals
    /\ launcher' = [ Raised_SystemExit(launcher) EXCEPT
                       !.signals = @ + 1,
                       !.ending = "signal",
                       !.interrupted =
                           @ \/ launcher.pc \in StopSteps \cup { "spawned" } ]
    /\ LauncherFrame

NextLauncher ==
    \/ Spawn
    \/ AssignProcess
    \/ ServerReady
    \/ StartTimeout
    \/ WindowClosed
    \/ WindowFailed
    \/ StopTerminate
    \/ ChildExits
    \/ WaitReturns
    \/ WaitTimesOut
    \/ Kill
    \/ ClearProcess
    \/ Signal

SpecLauncher == InitLauncher /\ [][NextLauncher]_vars

--------------------------------------------------------------------------
(* generate_embeddable_html (app/components/visualization_bridge.py).      *)
(* embed.files are the temporary files on disk, embed.pc the statement the *)
(* call is at; a statement that can raise either succeeds or is left for   *)
(* the except clause.                                                      *)

\* calls of generate_embeddable_html in one run
MaxEmbedCalls == 3

ADAPTER_MAP ==
    { "force_graph", "sankey", "sentiment_chart", "entity_browser",
      "evaluation_dashboard" }

\* the adapter types a caller passes
AdapterTypes == { "sankey", "force_graph", "word_cloud" }

InitEmbed ==
    /\ embed = [ pc |-> "idle",
                 calls |-> 0,
                 adapter_type |-> "None",
                 temp_path |-> 0,
                 files |-> {},
                 failed_at |-> "None",
                 returned |-> << >> ]
    /\ migration = << >>
    /\ session = << >>
    /\ launcher = << >>
    /\ peaks = << >>
    /\ IdleAtom
    /\ IdleRun
    /\ IdleMod

EmbedFrame ==
    UNCHANGED << migration, session, launcher, peaks,
                 atomVars, runVars, modVars >>

\* return html_content, True
ReturnHtml(e) ==
    [ e EXCEPT !.pc = "idle", !.returned = << "html", TRUE >> ]

\* except Exception: return error_html, False
ReturnError(e, statement) ==
    [ e EXCEPT !.pc = "idle", !.failed_at = statement,
               !.returned = << "error_html", FALSE >> ]

\* the statement either succeeds and the call goes on at next, or raises
Ends(e, ok, statement, next) ==
    IF ok THEN [ e EXCEPT !.pc = next ] ELSE ReturnError(e, statement)

\* generate_embeddable_html(adapter_type, analysis_data): the imports
CallEmbed ==
    \E adapter_type \in AdapterTypes, ok \in BOOLEAN :
        /\ embed.pc = "idle"
        /\ embed.calls < MaxEmbedCalls
        /\ embed' = Ends([ embed EXCEPT !.calls = @ + 1,
                                        !.adapter_type = adapter_type,
                                        !.temp_path = 0,
                                        !.failed_at = "None",
                                        !.returned = << >> ],
                         ok, "import", "lookup")
        /\ EmbedFrame

\* if adapter_type not in ADAPTER_MAP: return ..., False; the adapter and
\* the AnalysisOutput are constructed
Lookup ==
    \E ok \in BOOLEAN :
        /\ embed.pc = "lookup"
        /\ embed' =
              IF embed.adapter_type \notin ADAPTER_MAP
              THEN [ embed EXCEPT !.pc = "idle",
                                  !.returned = << "unknown_adapter", FALSE >> ]
              ELSE Ends(embed, ok, "construct", "tempfile")
        /\ EmbedFrame

\* tempfile.NamedTemporaryFile(mode='w', suffix='.html', delete=False)
CreateTemp ==
    /\ embed.pc = "tempfile"
    /\ embed' = [ embed EXCEPT !.pc = "generate",
                               !.temp_path = embed.calls,
                               !.files = @ \cup { embed.calls } ]
    /\ EmbedFrame

\* adapter.generate(analysis_output, temp_path, config)
Generate ==
    \E ok \in BOOLEAN :
        /\ embed.pc = "generate"
        /\ embed' = Ends(embed, ok, "generate", "read")
        /\ EmbedFrame

\* open(temp_path, 'r', encoding='utf-8'), f.read()
ReadHtml ==
    \E ok \in BOOLEAN :
        /\ embed.pc = "read"
        /\ embed' = Ends(embed, ok, "read", "unlink")
        /\ EmbedFrame

\* temp_path.unlink()
Unlink ==
    /\ embed.pc = "unlink"
    /\ embed' = [ embed EXCEPT !.pc = "adapt",
                               !.files = @ \ { embed.temp_path } ]
    /\ EmbedFrame

\* _adapt_for_iframe(html_content, height) and the return
AdaptAndReturn ==
    \E ok \in BOOLEAN :
        /\ embed.pc = "adapt"
        /\ embed' = IF ok THEN ReturnHtml(embed)
                    ELSE ReturnError(embed, "adapt")
        /\ EmbedFrame

NextEmbed ==
    \/ CallEmbed
    \/ Lookup
    \/ CreateTemp
    \/ Generate
    \/ ReadHtml
    \/ Unlink
    \/ AdaptAndReturn

SpecEmbed == InitEmbed /\ [][NextEmbed]_vars

--------------------------------------------------------------------------
(* C1 -- after an atomization run under any naming strategy, no two atoms  *)
(* of the same level have the same ID.                                     *)
C1_UniqueIds ==
    Atomized =>
        \A l \in 1 .. Len(Levels) :
            LET atoms == IterAtoms(result, Levels[l])
            IN  \A i, j \in 1 .. Len(atoms) :
                    i # j => atoms[i].id # atoms[j].id

\* two words with the same text under the content-derived strategy, and
\* two themes
C1_Witness ==
    /\ Atomized
    /\ naming = "semantic"
    /\ Len(result.themes) >= 2
    /\ LET ws == IterAtoms(result, "word")
       IN  \E i, j \in 1 .. Len(ws) : i # j /\ ws[i].text = ws[j].text

--------------------------------------------------------------------------
(* C4 -- for every adjacent level pair the number of atoms of the lower    *)
(* level (count_atoms and the metadata total) is the sum of the stored     *)
(* child counts of the upper level, and each stored child count is the     *)
(* length of the atom's child list.                                        *)
C4_CountConsistency ==
    Atomized =>
        LET ts == IterAtoms(result, "theme")
            ps == IterAtoms(result, "paragraph")
            ss == IterAtoms(result, "sentence")
            ws == IterAtoms(result, "word")
            m  == result.metadata
        IN  /\ m.total_themes = CountAtoms(result, "theme")
            /\ \A i \in 1 .. Len(ts) :
                   ts[i].paragraph_count = Len(ts[i].paragraphs)
            /\ \A i \in 1 .. Len(ps) :
                   ps[i].sentence_count = Len(ps[i].sentences)
            /\ \A i \in 1 .. Len(ss) : ss[i].word_count = Len(ss[i].words)
            /\ \A i \in 1 .. Len(ws) : ws[i].letter_count = Len(ws[i].letters)
            /\ LET sum == SeqSum([ i \in 1 .. Len(ts) |-> ts[i].paragraph_count ])
               IN  sum = m.total_paragraphs /\ sum = CountAtoms(result, "paragraph")
            /\ LET sum == SeqSum([ i \in 1 .. Len(ps) |-> ps[i].sentence_count ])
               IN  sum = m.total_sentences /\ sum = CountAtoms(result, "sentence")
            /\ LET sum == SeqSum([ i \in 1 .. Len(ss) |-> ss[i].word_count ])
               IN  sum = m.total_words /\ sum = CountAtoms(result, "word")
            /\ LET sum == SeqSum([ i \in 1 .. Len(ws) |-> ws[i].letter_count ])
               IN  sum = m.total_letters /\ sum = CountAtoms(result, "letter")

\* two themes with paragraphs, and a word of at least two letters
C4_Witness ==
    /\ Atomized
    /\ Len(result.themes) >= 2
    /\ result.metadata.total_paragraphs >= 2
    /\ result.metadata.total_letters > result.metadata.total_words

--------------------------------------------------------------------------
(* C5 -- every atom below the theme level carries a back-reference for     *)
(* each of its ancestor levels, equal to the ID of the ancestor that       *)
(* contains it in the tree.                                                *)
HasRef(atom, field, id) == field \in DOMAIN atom /\ atom[field] = id

C5_BackReferences ==
    Atomized =>
        \A ti \in 1 .. Len(result.themes) :
          LET t == result.themes[ti] IN
          \A pi \in 1 .. Len(t.paragraphs) :
            LET p == t.paragraphs[pi] IN
            /\ HasRef(p, "theme_id", t.id)
            /\ \A si \in 1 .. Len(p.sentences) :
                 LET sn == p.sentences[si] IN
                 /\ HasRef(sn, "theme_id", t.id)
                 /\ HasRef(sn, "paragraph_id", p.id)
                 /\ \A wi \in 1 .. Len(sn.words) :
                      LET w == sn.words[wi] IN
                      /\ HasRef(w, "theme_id", t.id)
                      /\ HasRef(w, "paragraph_id", p.id)
                      /\ HasRef(w, "sentence_id", sn.id)
                      /\ \A li \in 1 .. Len(w.letters) :
                           LET lt == w.letters[li] IN
                           /\ HasRef(lt, "theme_id", t.id)
                           /\ HasRef(lt, "paragraph_id", p.id)
                           /\ HasRef(lt, "sentence_id", sn.id)
                           /\ HasRef(lt, "word_id", w.id)

\* a letter in the second theme, whose ancestors are not the first atoms
C5_Witness ==
    /\ Atomized
    /\ Len(result.themes) >= 2
    /\ \E pi \in 1 .. Len(result.themes[2].paragraphs) :
         \E si \in 1 .. Len(result.themes[2].paragraphs[pi].sentences) :
           \E wi \in 1 .. Len(result.themes[2].paragraphs[pi].sentences[si].words) :
             Len(result.themes[2].paragraphs[pi].sentences[si].words[wi].letters) >= 1
    /\ Len(result.themes[1].paragraphs) >= 1

--------------------------------------------------------------------------
(* C6 -- with the legacy naming strategy the k-th atom of a level, in      *)
(* document order over the whole corpus, has the ID made of the level's    *)
(* prefix and k zero-padded to 3, 4, 5, 6 and 8 digits; numbering starts   *)
(* at 1 and does not restart with a new parent.                            *)
DigitValue(c) == CHOOSE d \in 0 .. 9 : DigitChars[d + 1] = c

RECURSIVE NumberOf(_)
NumberOf(ds) ==
    IF ds = <<>> THEN 0
    ELSE 10 * NumberOf(SubSeq(ds, 1, Len(ds) - 1)) + DigitValue(ds[Len(ds)])

LegacyPrefixes == << "T", "P", "S", "W", "L" >>
LegacyDigits == << 3, 4, 5, 6, 8 >>

C6_LegacyNumbering ==
    (Atomized /\ naming = "legacy") =>
        \A l \in 1 .. Len(Levels) :
            LET atoms == IterAtoms(result, Levels[l])
            IN  \A k \in 1 .. Len(atoms) :
                    LET id == atoms[k].id
                    IN  /\ Len(id) = 1 + LegacyDigits[l]
                        /\ id[1] = LegacyPrefixes[l]
                        /\ \A d \in 2 .. Len(id) :
                               \E n \in 1 .. 10 : DigitChars[n] = id[d]
                        /\ NumberOf(Tail(id)) = k

\* the first paragraph of the second theme continues the numbering: P0002
C6_Witness ==
    /\ Atomized /\ naming = "legacy"
    /\ Len(result.themes) >= 2
    /\ result.themes[1].id = << "T", "0", "0", "1" >>
    /\ Len(result.themes[1].paragraphs) = 1
    /\ Len(result.themes[2].paragraphs) >= 1
    /\ result.themes[2].paragraphs[1].id = << "P", "0", "0", "0", "2" >>

--------------------------------------------------------------------------
(* C7 -- joining the children's text with the level's separator gives the  *)
(* atom's own text: exactly for a word and its letters, and up to          *)
(* whitespace normalization for sentences, paragraphs and themes.          *)
RECURSIVE Join(_, _)
Join(texts, sep) ==
    IF texts = <<>> THEN <<>>
    ELSE IF Len(texts) = 1 THEN texts[1]
    ELSE texts[1] \o sep \o Join(Tail(texts), sep)

\* whitespace normalization: runs of whitespace become one space, and
\* leading and trailing whitespace goes
RECURSIVE Collapse(_)
Collapse(s) ==
    IF s = <<>> THEN <<>>
    ELSE LET rest == Collapse(Tail(s))
         IN  IF IsSpace(Head(s))
             THEN IF rest = <<>> \/ rest[1] = SP THEN rest ELSE << SP >> \o rest
             ELSE << Head(s) >> \o rest

Normalize(s) ==
    LET c == Collapse(s)
    IN  IF c # <<>> /\ c[1] = SP THEN Tail(c) ELSE c

C7_Reconstruction ==
    Atomized =>
        LET ts == IterAtoms(result, "theme")
            ps == IterAtoms(result, "paragraph")
            ss == IterAtoms(result, "sentence")
            ws == IterAtoms(result, "word")
        IN  /\ \A i \in 1 .. Len(ws) :
                 Join([ k \in 1 .. Len(ws[i].letters) |->
                          << ws[i].letters[k].char >> ], <<>>) = ws[i].text
            /\ \A i \in 1 .. Len(ss) :
                 Join([ k \in 1 .. Len(ss[i].words) |-> ss[i].words[k].text ],
                      << SP >>) = Normalize(ss[i].text)
            /\ \A i \in 1 .. Len(ps) :
                 Normalize(Join([ k \in 1 .. Len(ps[i].sentences) |->
                                    ps[i].sentences[k].text ], << SP >>))
                     = Normalize(ps[i].text)
            /\ \A i \in 1 .. Len(ts) :
                 Normalize(Join([ k \in 1 .. Len(ts[i].paragraphs) |->
                                    ts[i].paragraphs[k].text ], << NL, NL >>))
                     = Normalize(ts[i].text)

\* a paragraph of two sentences, one of them with punctuation in a word
C7_Witness ==
    /\ Atomized
    /\ \E i \in 1 .. Len(IterAtoms(result, "paragraph")) :
         LET p == IterAtoms(result, "paragraph")[i]
         IN  /\ Len(p.sentences) >= 2
             /\ Len(p.sentences[1].words) >= 1
             /\ Len(p.sentences[1].words[1].letters) >= 2

--------------------------------------------------------------------------
(* C2 -- load_json applied to the file export_json wrote returns a corpus  *)
(* with the same atom IDs, text, hierarchy and per-level counts; loading   *)
(* does not renumber atoms.                                                *)
C2_RoundTrip ==
    phase = "loaded" =>
        /\ loaded.metadata = result.metadata
        /\ \A l \in 1 .. Len(Levels) :
             LET a == IterAtoms(result, Levels[l])
                 b == IterAtoms(loaded, Levels[l])
             IN  /\ Len(a) = Len(b)
                 /\ \A i \in 1 .. Len(a) : a[i].id = b[i].id
        /\ loaded.themes = result.themes

\* a corpus with two themes and a paragraph whose text holds a newline
C2_Witness ==
    /\ phase = "loaded"
    /\ Len(loaded.themes) >= 2
    /\ \E i \in 1 .. Len(IterAtoms(result, "paragraph")) :
         \E k \in 1 .. Len(IterAtoms(result, "paragraph")[i].text) :
             IterAtoms(result, "paragraph")[i].text[k] = NL

--------------------------------------------------------------------------
(* The themes a text describes, read line by line *)

\* the lines of a text, without their newlines
RECURSIVE LinesOf(_, _)
LinesOf(s, cur) ==
    IF s = <<>> THEN << cur >>
    ELSE IF Head(s) = NL THEN << cur >> \o LinesOf(Tail(s), <<>>)
         ELSE LinesOf(Tail(s), Append(cur, Head(s)))

\* a heading line: the ## marker, a space and a heading text
IsHeadingLine(line) ==
    Len(line) >= 4 /\ SubSeq(line, 1, 3) = << "#", "#", SP >>

HeadingCount(text) ==
    LET ls == LinesOf(text, <<>>)
    IN  Cardinality({ i \in 1 .. Len(ls) : IsHeadingLine(ls[i]) })

\* the sections of a text: the part before the first heading (heading
\* FALSE), then one section per heading line, each with its body lines
RECURSIVE SectionsOf(_, _, _)
SectionsOf(ls, cur, acc) ==
    IF ls = <<>> THEN Append(acc, cur)
    ELSE IF IsHeadingLine(Head(ls))
         THEN SectionsOf(Tail(ls),
                  [ heading |-> TRUE,
                    title |-> SubSeq(Head(ls), 4, Len(Head(ls))),
                    body |-> <<>> ],
                  Append(acc, cur))
         ELSE SectionsOf(Tail(ls),
                  [ cur EXCEPT !.body = Append(@, Head(ls)) ], acc)

Sections(text) ==
    SectionsOf(LinesOf(text, <<>>),
               [ heading |-> FALSE, title |-> <<>>, body |-> <<>> ], <<>>)

\* title and body of a section as a theme stores them
AsTheme(sec) ==
    [ title |-> Strip(sec.title), text |-> Strip(Join(sec.body, << NL >>)) ]

\* one theme per heading line, in document order
HeadingThemes(text) ==
    LET secs == Sections(text)
    IN  [ i \in 1 .. (Len(secs) - 1) |-> AsTheme(secs[i + 1]) ]

\* the same, preceded by an untitled theme for a non-empty preamble
ThemesWithPreamble(text) ==
    LET pre == AsTheme(Sections(text)[1])
    IN  (IF pre.text = <<>> THEN <<>> ELSE << pre >>) \o HeadingThemes(text)

\* title and text of the themes of the result
ThemeHeads(r) ==
    [ i \in 1 .. Len(r.themes) |->
        [ title |-> r.themes[i].title, text |-> r.themes[i].text ] ]

--------------------------------------------------------------------------
(* C8 -- THEME-level atomization yields one theme per heading line, in     *)
(* document order, titled with the heading text and with the body running  *)
(* to the next heading or the end of the text; non-empty text before the   *)
(* first heading (a text with no heading included) is kept as an           *)
(* additional untitled first theme, and an empty preamble yields no theme. *)
C8_ThemesKeepPreamble ==
    Atomized => ThemeHeads(result) = ThemesWithPreamble(content)

\* what atomize_manuscript does: the text before the first heading never
\* becomes a theme
C8_ThemesFromHeadingsOnly ==
    Atomized => ThemeHeads(result) = HeadingThemes(content)

--------------------------------------------------------------------------
(* C9 -- atomization does not fail on empty parts: the empty string gives  *)
(* a corpus with zero themes and a count of 0 at every level, which is     *)
(* still exported and loaded, and a heading with an empty body gives a     *)
(* theme with zero paragraphs.                                             *)
C9_EmptyParts ==
    /\ (Atomized /\ content = <<>>) =>
          /\ result.themes = <<>>
          /\ result.metadata =
                [ total_themes |-> 0, total_paragraphs |-> 0,
                  total_sentences |-> 0, total_words |-> 0,
                  total_letters |-> 0 ]
          /\ \A l \in 1 .. Len(Levels) : CountAtoms(result, Levels[l]) = 0
    /\ (phase \in { "exported", "loaded" } /\ content = <<>>) =>
          /\ Len(file) = 1
          /\ file[1].ev = "metadata"
          /\ file[1].members.total_themes = 0
    /\ (phase = "loaded" /\ content = <<>>) => loaded.themes = <<>>
    /\ Atomized =>
          /\ Len(result.themes) = HeadingCount(content)
          /\ \A i \in 1 .. Len(result.themes) :
                 result.themes[i].text = <<>> =>
                     /\ result.themes[i].paragraphs = <<>>
                     /\ result.themes[i].paragraph_count = 0

\* a heading whose body is blank, followed by another heading
C9_Witness ==
    /\ Atomized
    /\ Len(result.themes) >= 2
    /\ result.themes[1].text = <<>>
    /\ result.themes[1].paragraph_count = 0
    /\ Len(result.themes[2].paragraphs) >= 1

--------------------------------------------------------------------------
(* C3 -- when one module of a run raises inside analyze, the failure is    *)
(* reported for that module only: every module listed after it is still    *)
(* executed, the outputs of the modules that succeeded are returned, the   *)
(* failed module has no entry in the results, and the run ends in COMPLETE *)
(* (exit status 0), not in ERROR.                                          *)
RaisesInAnalyze(k) ==
    /\ modules_to_run[k] \in Registered
    /\ behaviour[modules_to_run[k]] # "ok"

C3_ModuleIsolation ==
    (/\ pc = "exited"
     /\ project_found /\ corpus_exists
     /\ \E k \in 1 .. Len(modules_to_run) : RaisesInAnalyze(k))
    =>
    /\ \A j \in 1 .. Len(modules_to_run) :
           modules_to_run[j] \in Registered => j \in executed
    /\ \A j \in 1 .. Len(modules_to_run) :
           OutcomeOf(modules_to_run[j]) = "ok" => modules_to_run[j] \in results
    /\ \A j \in 1 .. Len(modules_to_run) :
           RaisesInAnalyze(j) => modules_to_run[j] \notin results
    /\ exit_code = 0

--------------------------------------------------------------------------
(* C10 -- a pipeline run visits its states only in the order CONFIGURED,   *)
(* ATOMIZING, ANALYZING, VISUALIZING, COMPLETE; VISUALIZING is entered     *)
(* only when visualize is true; no state is revisited; from any stage the  *)
(* run may enter ERROR instead, and ERROR is never left.                   *)
StateOrder ==
    [ CONFIGURED |-> 1, ATOMIZING |-> 2, ANALYZING |-> 3, VISUALIZING |-> 4,
      COMPLETE |-> 5 ]

C10_StateOrder ==
    [][ state' # state =>
          /\ state # "ERROR"
          /\ state # "COMPLETE"
          /\ \/ state' = "ERROR"
             \/ /\ state' \in DOMAIN StateOrder
                /\ \/ StateOrder[state'] = StateOrder[state] + 1
                   \/ state = "ANALYZING" /\ state' = "COMPLETE"
          /\ state' = "VISUALIZING" => visualize
      ]_vars

\* a run with visualize that went through every state
C10_Witness ==
    /\ state = "COMPLETE"
    /\ visualize
    /\ visited = << "CONFIGURED", "ATOMIZING", "ANALYZING", "VISUALIZING" >>
    /\ Cardinality(executed) >= 2

--------------------------------------------------------------------------
(* C11 -- when atomization fails during a pipeline run, or the analyze     *)
(* command finds no atomized corpus, the run is aborted: it ends in ERROR  *)
(* (exit status 1), no analysis module and no visualization adapter was    *)
(* executed, and COMPLETE is not reached.                                  *)
NoCorpus ==
    \/ driver = "pipeline" /\ ~corpus_exists /\ ~atomize_ok
    \/ driver = "cmd_analyze" /\ project_found /\ ~corpus_exists

C11_AtomizationFailureAborts ==
    NoCorpus =>
        /\ executed = {} /\ results = {} /\ reported = {}
        /\ state \notin { "ANALYZING", "VISUALIZING", "COMPLETE" }
        /\ "ANALYZING" \notin { visited[k] : k \in DOMAIN visited }
        /\ exit_code # 0
        /\ pc = "exited" => exit_code = 1
        /\ (driver = "pipeline" /\ pc = "exited") => state = "ERROR"

\* a pipeline run whose atomization failed, with modules configured
C11_Witness ==
    /\ driver = "pipeline"
    /\ ~corpus_exists /\ ~atomize_ok
    /\ state = "ERROR"
    /\ visited = << "CONFIGURED", "ATOMIZING" >>
    /\ Len(modules_to_run) >= 2
    /\ exit_code = 1

--------------------------------------------------------------------------
(* C12 -- within one run the configured modules are executed one at a      *)
(* time, in the order of the configuration, each only after the modules    *)
(* listed before it are done with; the results hold exactly one output per *)
(* successfully executed module, under the module's name.                  *)
Succeeded == { k \in executed : OutcomeOf(modules_to_run[k]) = "ok" }

ResultsKeyedByModule ==
    /\ results = { modules_to_run[k] : k \in Succeeded }
    /\ executed \subseteq 1 .. (idx - 1) \cup { idx }
    /\ idx <= Len(modules_to_run) + 1

OneModuleAtATime ==
    (executed' # executed \/ results' # results \/ reported' # reported) =>
        /\ idx <= Len(modules_to_run)
        /\ executed' \subseteq executed \cup { idx }
        /\ results \subseteq results'
        /\ results' \subseteq results \cup { modules_to_run[idx] }
        /\ \A j \in 1 .. (idx - 1) :
               modules_to_run[j] \in Registered => j \in executed
        /\ idx' = idx + 1 \/ pc' = "exited"

C12_ModuleOrder == []ResultsKeyedByModule /\ [][OneModuleAtATime]_vars

\* the analyze command ran three different modules: two outputs, one
\* failure reported
C12_Witness ==
    /\ driver = "cmd_analyze"
    /\ pc = "exited" /\ exit_code = 0
    /\ Len(modules_to_run) = 3
    /\ Cardinality({ modules_to_run[k] : k \in 1 .. 3 }) = 3
    /\ executed = { 1, 2, 3 }
    /\ Cardinality(results) = 2
    /\ Cardinality(reported) = 1

--------------------------------------------------------------------------
(* C13 -- analyze called twice in a row on one module instance with the    *)
(* same unmodified corpus, the same domain and the same config returns     *)
(* outputs with identical data.                                            *)
SameArguments(a, b) ==
    a.inst = b.inst /\ a.domain = b.domain /\ a.config = b.config

C13_IdempotentAnalyze ==
    \A k \in 1 .. (Len(calls) - 1) :
        SameArguments(calls[k], calls[k + 1]) =>
            calls[k + 1].out.data = calls[k].out.data

\* a temporal analysis repeated on two sentences of one theme: counts were
\* kept on the instance by the first call
C13_Witness ==
    /\ Len(calls) = 2
    /\ SameArguments(calls[1], calls[2])
    /\ instances[calls[1].inst].cls = "TemporalAnalysis"
    /\ Len(corpus_atoms) = 2
    /\ corpus_atoms[1].theme_id = corpus_atoms[2].theme_id
    /\ calls[1].self.tense_distribution # EmptyDict
    /\ calls[2].out.data.overall_statistics.total_sentences = 2

--------------------------------------------------------------------------
(* C14 -- every create_analysis or create_adapter call for a registered    *)
(* name returns a newly constructed instance of the registered class: the  *)
(* object is one no earlier call returned, it holds nothing an earlier     *)
(* analyze call stored, and an analyze call changes the state of the       *)
(* instance it is called on and of no other.                               *)

\* the classes registered in some namespace the instances come from
RegisteredClasses ==
    { registry.analysis[n] : n \in DOMAIN registry.analysis }
        \cup { registry.adapters[n] : n \in DOMAIN registry.adapters }

\* a create step adds one object, as its constructor leaves it, and leaves
\* every object handed out before as it is
CreateReturnsFresh ==
    Len(instances') # Len(instances) =>
        /\ Len(instances') = Len(instances) + 1
        /\ SubSeq(instances', 1, Len(instances)) = instances
        /\ instances'[Len(instances')].cls \in RegisteredClasses
        /\ instances'[Len(instances')] =
               NewInstance(instances'[Len(instances')].cls, env)

\* only the instance analyze was called on changes
AnalyzeTouchesSelfOnly ==
    \A k \in DOMAIN instances :
        (k \in DOMAIN instances' /\ instances'[k] # instances[k]) =>
            /\ Len(calls') = Len(calls) + 1
            /\ calls'[Len(calls')].inst = k

C14_FreshInstances == [][CreateReturnsFresh /\ AnalyzeTouchesSelfOnly]_vars

\* two instances of one class, the first holding what its analyze call
\* stored, the second as constructed
C14_Witness ==
    /\ Len(instances) = 2
    /\ instances[1].cls = instances[2].cls
    /\ Len(calls) >= 1
    /\ calls[1].inst = 1
    /\ instances[1].cls = "TemporalAnalysis"
    /\ instances[1].tense_distribution # EmptyDict
    /\ instances[2] = NewInstance("TemporalAnalysis", env)

--------------------------------------------------------------------------
(* C15 -- registering a class under a name already taken in its namespace  *)
(* replaces the earlier entry: the name maps to the class registered last, *)
(* create instantiates the class the registry holds for the name, and a    *)
(* registration leaves every other name of the namespace and the other     *)
(* namespaces as they were.                                                *)

Namespaces == { "analysis", "adapters", "domains", "schemas" }

\* the name of the last registration maps to its class
RegisteredLast ==
    last_register # NoRegister =>
        /\ last_register.name \in DOMAIN registry[last_register.namespace]
        /\ registry[last_register.namespace][last_register.name]
               = last_register.cls

\* the entry of a name in a namespace, or "absent"
EntryOf(reg, namespace, name) == Get(reg[namespace], name, "absent")

AllNames == UNION { DOMAIN registry[ns] \cup DOMAIN registry'[ns] :
                    ns \in Namespaces }

\* a step changes no entry but the one of the last registration
RegisterKeepsOthers ==
    registry' # registry =>
        \A ns \in Namespaces : \A n \in AllNames :
            EntryOf(registry', ns, n) # EntryOf(registry, ns, n) =>
                /\ last_register'.namespace = ns
                /\ last_register'.name = n

\* a create step instantiates the class the registry holds for the name
CreateUsesRegistry ==
    Len(instances') = Len(instances) + 1 =>
        instances'[Len(instances')].cls
            = registry[last_create'.namespace][last_create'.name]

C15_OverwriteOnRedefinition ==
    /\ []RegisteredLast
    /\ [][RegisterKeepsOthers /\ CreateUsesRegistry]_vars

\* "entity" was taken by EntityAnalysis, was registered again, and creating
\* it gave an instance of the class registered last
C15_Witness ==
    /\ InitialRegistry.analysis["entity"] = "EntityAnalysis"
    /\ last_register = Registration("analysis", "entity", "TemporalAnalysis")
    /\ last_create = Created("created", "analysis", "entity")
    /\ Len(instances) >= 1
    /\ instances[Len(instances)].cls = "TemporalAnalysis"
    /\ registry.analysis["sentiment"] = "SentimentAnalysis"
    /\ registry.adapters = InitialRegistry.adapters
    /\ registry.domains = InitialRegistry.domains
    /\ registry.schemas = InitialRegistry.schemas

--------------------------------------------------------------------------
(* C16 -- create_analysis or create_adapter with a name that is not        *)
(* registered in its namespace fails with NotFoundError, which an except   *)
(* KeyError clause catches; the failed call creates no instance and leaves *)
(* the registry as it was.                                                 *)

\* the exception a create call leaves its caller with: NotFoundError is a
\* KeyError
Raised(created) ==
    IF created.result = "NotFoundError" THEN "KeyError" ELSE "none"

\* how a create call ends, by whether its name is registered
CreateOutcome ==
    last_create' # last_create =>
        IF last_create'.name \in DOMAIN registry[last_create'.namespace]
        THEN /\ last_create'.result = "created"
             /\ Len(instances') = Len(instances) + 1
        ELSE /\ last_create'.result = "NotFoundError"
             /\ Caught(Handler("cmd_analyze", 1), Raised(last_create'))
             /\ instances' = instances
             /\ registry' = registry
             /\ calls' = calls

C16_CreateUnregistered == [][CreateOutcome]_vars

\* an instance was created, then create_adapter failed for a name no adapter
\* is registered under, while the name is taken in the analysis namespace
C16_Witness ==
    /\ last_create = Created("NotFoundError", "adapters", "plugin")
    /\ "plugin" \in DOMAIN registry.analysis
    /\ "plugin" \notin DOMAIN registry.adapters
    /\ Len(instances) = 1
    /\ instances[1] = NewInstance("EntityAnalysis", env)

--------------------------------------------------------------------------
(* C17 -- a CLI command returns exit code 0 on success, and exit code 1    *)
(* when the project does not exist or when a requested analysis module is  *)
(* not registered, `analyze --module X` for an unregistered X included.    *)

\* the project and its corpus are there and every requested module is
\* registered and returns an output
RunSucceeds ==
    /\ project_found /\ corpus_exists
    /\ \A k \in 1 .. Len(modules_to_run) : OutcomeOf(modules_to_run[k]) = "ok"

\* a requested module is not registered
ModuleNotFound ==
    /\ project_found /\ corpus_exists
    /\ \E k \in 1 .. Len(modules_to_run) : modules_to_run[k] \notin Registered

C17_ExitCodes ==
    (driver = "cmd_analyze" /\ pc = "exited") =>
        /\ RunSucceeds => exit_code = 0
        /\ ~project_found => exit_code = 1
        /\ ModuleNotFound => exit_code = 1

\* what the code does: the KeyError of an unregistered module is caught and
\* printed, and the command returns 0 if no analyze call raised
C17_ExitCodesOfCode ==
    (driver = "cmd_analyze" /\ pc = "exited") =>
        /\ RunSucceeds => exit_code = 0
        /\ ~project_found => exit_code = 1
        /\ (/\ ModuleNotFound
            /\ \A k \in 1 .. Len(modules_to_run) : ~RaisesInAnalyze(k))
               => exit_code = 0

--------------------------------------------------------------------------
(* C18 -- when an optional backend is not available (vaderSentiment or     *)
(* TextBlob for sentiment, spaCy or its model for entity and temporal),    *)
(* analyze raises nothing: it returns an output whose metadata records     *)
(* that the backend is not there or was not used, also when the config     *)
(* asks for it with use_spacy true.                                        *)

\* the backend the class of the call uses is not available in the process
BackendUnavailable(cls) ==
    CASE cls = "SentimentAnalysis" -> ~env.vader \/ ~env.textblob
      [] cls = "EntityAnalysis"    -> ~env.spacy \/ ~env.model
      [] cls = "TemporalAnalysis"  -> ~env.spacy \/ ~env.model
      [] OTHER -> FALSE

\* the metadata says so
RecordsUnavailable(cls, metadata) ==
    CASE cls = "SentimentAnalysis" ->
            Get(metadata, "sentiment_available", TRUE) = FALSE
      [] cls = "EntityAnalysis" ->
            /\ Get(metadata, "spacy_used", TRUE) = FALSE
            /\ Get(metadata, "spacy_available", ~env.spacy) = env.spacy
      [] cls = "TemporalAnalysis" ->
            /\ Get(metadata, "spacy_model", "en_core_web_sm") = "None"
            /\ Get(metadata, "spacy_available", ~env.spacy) = env.spacy

--------------------------------------------------------------------------
(* C19 -- analyze with domain = None fails for no module and uses the      *)
(* built-in defaults only: EntityAnalysis matches with exactly its         *)
(* DEFAULT_PATTERNS, as it does for a profile without patterns, and        *)
(* SentimentAnalysis reports an empty custom lexicon; with a domain that   *)
(* has patterns EntityAnalysis uses the domain's patterns in place of the  *)
(* defaults.                                                               *)

\* the entity types found in the sentences of an entity output
TypesFound(out) ==
    UNION { DOMAIN out.data.enhanced_atomized[i].entities :
            i \in DOMAIN out.data.enhanced_atomized }

\* the call matched with exactly these patterns: they are the instance's,
\* and where the spaCy model added nothing the entities are their matches
MatchedWith(call, patterns) ==
    /\ call.self.patterns = patterns
    /\ call.out.metadata.pattern_count = Cardinality(DOMAIN patterns)
    /\ \/ call.out.metadata.spacy_used
       \/ \A i \in DOMAIN call.out.data.enhanced_atomized :
              call.out.data.enhanced_atomized[i].entities =
                  extract_entities_pattern(patterns,
                      call.out.data.enhanced_atomized[i].text)

DefaultsOnly(call) ==
    /\ DOMAIN call.out = { "module", "data", "metadata" }
    /\ call.self.cls = "EntityAnalysis" => MatchedWith(call, DEFAULT_PATTERNS)
    /\ call.self.cls = "SentimentAnalysis" =>
           /\ call.self.lexicon = EmptyDict
           /\ Get(call.out.data, "custom_lexicon", EmptyDict) = EmptyDict
           /\ Get(call.out.metadata, "lexicon_terms", 0) = 0

C19_DomainNoneDefaults ==
    \A k \in 1 .. Len(calls) :
        /\ calls[k].domain = NoDomain => DefaultsOnly(calls[k])
        /\ (calls[k].self.cls = "EntityAnalysis"
              /\ calls[k].domain.pattern_sets = << >>)
               => MatchedWith(calls[k], DEFAULT_PATTERNS)
        /\ (calls[k].self.cls = "EntityAnalysis"
              /\ calls[k].domain.pattern_sets # << >>)
               => /\ MatchedWith(calls[k], calls[k].domain.pattern_sets[1])
                  /\ DOMAIN calls[k].self.patterns \cap DOMAIN DEFAULT_PATTERNS
                         = {}

\* one entity instance called with the military profile, whose MOOD pattern
\* matched, and then with no domain, where a default pattern matched; or a
\* sentiment instance in the same order
C19_Witness ==
    /\ Len(calls) = 2
    /\ calls[1].inst = calls[2].inst
    /\ calls[1].domain.name = "military"
    /\ calls[2].domain = NoDomain
    /\ \/ /\ calls[1].self.cls = "EntityAnalysis"
          /\ TypesFound(calls[1].out) = { "MOOD" }
          /\ TypesFound(calls[2].out) # {}
       \/ /\ calls[1].self.cls = "SentimentAnalysis"
          /\ Get(calls[1].out.data, "custom_lexicon", EmptyDict) # EmptyDict
          /\ "custom_lexicon" \in DOMAIN calls[2].out.data

--------------------------------------------------------------------------
(* C20 -- after _reset_counters() an atomizer numbers atoms as a newly     *)
(* constructed atomizer does: atomizing the text of the first run again    *)
(* after a reset yields the IDs, text and hierarchy of the first run,      *)
(* whatever the atomizer atomized in between.                              *)

\* a run after a reset, of the text of the first run, gives the first run's
\* atoms
SameAsFirstRun(k) ==
    (history[k].after_reset /\ history[k].text = history[1].text)
        => history[k].themes = history[1].themes

--------------------------------------------------------------------------
(* C21 -- analyze of any analysis module leaves the corpus as it was: no   *)
(* atom differs after the call, the derived data is in the output only,    *)
(* and so every module of a run is given the corpus the first one was      *)
(* given.                                                                  *)
C21_CorpusUnchanged == [][corpus_atoms' = corpus_atoms]_vars

\* the entity module found entities in two sentences and put them in its
\* output, a second module ran after it, and the atoms hold no entities
C21_Witness ==
    /\ Len(calls) = 2
    /\ Len(corpus_atoms) = 2
    /\ calls[1].self.cls = "EntityAnalysis"
    /\ calls[2].self.cls # "EntityAnalysis"
    /\ \A i \in 1 .. 2 :
           /\ calls[1].out.data.enhanced_atomized[i].entities # EmptyDict
           /\ DOMAIN corpus_atoms[i] = { "theme_id", "text" }

--------------------------------------------------------------------------
(* C22 -- migrate with --dry-run changes nothing on disk: no project       *)
(* directory is moved, no category directory is created, no project.yaml   *)
(* is rewritten and no re-atomization is started; nor is anything changed  *)
(* when migrate stops because the project is not found or because the      *)
(* target directory exists and is not the source.                          *)

\* the run stopped with an error before it loaded the config
StoppedEarly ==
    /\ migration.pc = "exited"
    /\ migration.exit_code = 1

C22_DryRunChangesNothing ==
    (migration.args.dry_run \/ StoppedEarly) =>
        /\ migration.disk = migration.before
        /\ migration.pc = "exited" =>
              migration.exit_code = (IF StoppedEarly THEN 1 ELSE 0)

\* a dry run that would have moved the project into a new category, under
\* a new name, and re-atomized it, has returned 0
C22_Witness ==
    /\ migration.args.dry_run
    /\ migration.args.re_atomize
    /\ migration.args.category = "new"
    /\ migration.args.new_name = "short"
    /\ migration.pc = "exited"
    /\ migration.exit_code = 0
    /\ migration.config.strategy = migration.args.naming
    /\ DOMAIN migration.disk.projects = { migration.args.source }

--------------------------------------------------------------------------
(* C24 -- for every list of sentence sentiments and every peak count       *)
(* n >= 0, find_emotional_peaks returns in most_negative the               *)
(* min(n, number of sentences) sentences of lowest composite_score in      *)
(* ascending order and in most_positive as many of highest                 *)
(* composite_score in descending order; neither list has more than n       *)
(* entries.                                                                *)

Min(a, b) == IF a < b THEN a ELSE b

\* the sentences of a list of entries
IdsOf(entries) == { entries[i].sentence_id : i \in DOMAIN entries }

\* picked holds count entries of data, no entry twice, in the order sign
\* gives (1 ascending, -1 descending), and no entry left out comes before
\* one that was picked
IsPeakList(picked, data, count, sign) ==
    /\ Len(picked) = count
    /\ Cardinality(IdsOf(picked)) = count
    /\ \A i \in DOMAIN picked :
           \E j \in DOMAIN data : data[j] = picked[i]
    /\ \A i \in 1 .. (Len(picked) - 1) :
           sign * picked[i].composite_score
               <= sign * picked[i + 1].composite_score
    /\ \A i \in DOMAIN picked : \A j \in DOMAIN data :
           data[j].sentence_id \notin IdsOf(picked) =>
               sign * picked[i].composite_score
                   <= sign * data[j].composite_score

PeaksAsStated(n) ==
    /\ IsPeakList(peaks.out.most_negative, peaks.sentiment_data,
                  Min(n, Len(peaks.sentiment_data)), 1)
    /\ IsPeakList(peaks.out.most_positive, peaks.sentiment_data,
                  Min(n, Len(peaks.sentiment_data)), -1)
    /\ Len(peaks.out.most_negative) <= n
    /\ Len(peaks.out.most_positive) <= n

C24_EmotionalPeaks == peaks.pc = "returned" => PeaksAsStated(peaks.n)

\* what the code does: as stated for n >= 1; for n = 0 most_negative is
\* empty and most_positive holds every sentence
C24_EmotionalPeaksOfCode ==
    peaks.pc = "returned" =>
        IF peaks.n >= 1 THEN PeaksAsStated(peaks.n)
        ELSE /\ peaks.out.most_negative = << >>
             /\ IsPeakList(peaks.out.most_positive, peaks.sentiment_data,
                           Len(peaks.sentiment_data), -1)

--------------------------------------------------------------------------
(* C25 -- the custom lexicon that influences the scores of a               *)
(* SentimentAnalysis.analyze call is exactly the merged lexicon of the     *)
(* domain passed to that call: terms an earlier call on the same instance  *)
(* loaded for another domain have no effect, so the output is that of a    *)
(* fresh instance given the same arguments.                                *)

\* the output a newly constructed instance gives for the arguments of a call
FreshOutput(call) ==
    AnalyzeOf(NewInstance(call.self.cls, env), corpus_atoms, call.domain,
              call.config, env).out

C25_LexiconOfThisCall ==
    \A k \in 1 .. Len(calls) :
        (calls[k].self.cls = "SentimentAnalysis" /\ env.vader /\ env.textblob) =>
            /\ calls[k].self.lexicon = DomainTerms(calls[k].domain)
            /\ calls[k].out = FreshOutput(calls[k])

\* what the code does: the reported custom lexicon is that of the call's
\* domain, and the VADER analyzer of the instance has the terms of every
\* domain the instance was called with so far, a later one overriding
C25_LexiconOfInstance ==
    \A k \in 1 .. Len(calls) :
        (calls[k].self.cls = "SentimentAnalysis" /\ env.vader /\ env.textblob) =>
            /\ calls[k].self.lexicon = DomainTerms(calls[k].domain)
            /\ calls[k].out.data.custom_lexicon = DomainTerms(calls[k].domain)
            /\ \A j \in 1 .. k :
                   calls[j].inst = calls[k].inst =>
                       DOMAIN DomainTerms(calls[j].domain)
                           \subseteq DOMAIN calls[k].self.vader_lexicon
            /\ \A t \in DOMAIN DomainTerms(calls[k].domain) :
                   calls[k].self.vader_lexicon[t] = DomainTerms(calls[k].domain)[t]

--------------------------------------------------------------------------
C26_ReadyResultsOfCode ==
    (session # << >> /\ session.analysis_state = READY) =>
        \/ session.analysis_results = NoResults
        \/ /\ session.members_are_strings
           /\ session.returned = EmptyResults
           /\ session.analysis_results.kind = "results"

(* C27 -- COMPLETE is entered only from ANALYZING and only when            *)
(* run_analysis returned a non-empty result, ERROR only from ANALYZING     *)
(* when it returned an empty one, and in COMPLETE the stored results are   *)
(* those computed for the stored uploaded_text and document_title.         *)
Enters(member) ==
    /\ session.analysis_state # member
    /\ session'.analysis_state = member

C27_Transitions ==
    [][ /\ Enters(COMPLETE) =>
            /\ session.analysis_state = ANALYZING
            /\ session'.returned # EmptyResults
            /\ session'.returned =
                   ResultsFor(session.uploaded_text, session.document_title)
        /\ Enters(ERROR) =>
            /\ session.analysis_state = ANALYZING
            /\ session'.returned = EmptyResults
        /\ session'.analysis_state = COMPLETE =>
            session'.analysis_results =
                ResultsFor(session'.uploaded_text, session'.document_title)
      ]_vars

\* a second document was analysed after a first, and an analysis failed
C27_Witness ==
    /\ session # << >>
    /\ session.analysis_state = COMPLETE
    /\ session.uploaded_text = "odyssey text"
    /\ session.analysis_results = ResultsFor("odyssey text", "Odyssey")

--------------------------------------------------------------------------
(* C28 -- on every way the desktop launcher ends after the Streamlit       *)
(* subprocess was spawned, the subprocess has been terminated (and killed  *)
(* if it did not exit within 5 seconds) before the launcher exits,         *)
(* StreamlitServer.process ends as None, and terminate was issued at most  *)
(* once.                                                                   *)
LauncherEnded ==
    /\ launcher # << >>
    /\ launcher.pc = "exited"
    /\ launcher.child # "none"

C28_SubprocessStopped ==
    LauncherEnded =>
        /\ launcher.child = "exited"
        /\ launcher.terminates = 1
        /\ launcher.process = "None"

\* what holds of the code: the same, unless a signal arrived between the
\* spawn and the assignment to self.process or while stop was running
C28_SubprocessStoppedUninterrupted ==
    (LauncherEnded /\ ~launcher.interrupted) =>
        /\ launcher.child = "exited"
        /\ launcher.terminates = 1
        /\ launcher.process = "None"

\* the other ways the claim is not met: terminate issued twice, and a
\* subprocess that is still running when the launcher has exited although
\* self.process was assigned
C28_TerminatedTwice ==
    LauncherEnded /\ launcher.terminates = 2 /\ launcher.signals = 1

C28_LeftRunning ==
    LauncherEnded /\ launcher.child = "running" /\ launcher.process = "Popen"

--------------------------------------------------------------------------
(* C29 -- in the overall_statistics of a TemporalAnalysis output every     *)
(* analyzed sentence is counted in exactly one of flashback_count,         *)
(* flashforward_count and linear_count, so the three add up to             *)
(* total_sentences, as the counts in tense_counts do.                      *)
TemporalCalls ==
    { k \in 1 .. Len(calls) : calls[k].self.cls = "TemporalAnalysis" }

StatisticsOf(k) == calls[k].out.data.overall_statistics

C29_NarrativeCountsAddUp ==
    \A k \in TemporalCalls :
        /\ StatisticsOf(k).flashback_count + StatisticsOf(k).flashforward_count
               + StatisticsOf(k).linear_count
             = StatisticsOf(k).total_sentences
        /\ SumValues(StatisticsOf(k).tense_counts,
                     DOMAIN StatisticsOf(k).tense_counts)
             = StatisticsOf(k).total_sentences

\* what holds of the code: the tense counts add up, and the three narrative
\* counts add up to the total plus one for every sentence that has both a
\* flashback and a flashforward signal
C29_NarrativeCountsOfCode ==
    \A k \in TemporalCalls :
        /\ StatisticsOf(k).flashback_count + StatisticsOf(k).flashforward_count
               + StatisticsOf(k).linear_count
             = StatisticsOf(k).total_sentences
                 + CountWhere(calls[k].out.data.sentence_analysis,
                              LAMBDA s : s.is_flashback /\ s.is_flashforward)
        /\ SumValues(StatisticsOf(k).tense_counts,
                     DOMAIN StatisticsOf(k).tense_counts)
             = StatisticsOf(k).total_sentences

--------------------------------------------------------------------------
(* C30 -- generate_embeddable_html leaves no temporary file behind: the    *)
(* file it created is deleted before it returns, both when (html, True)    *)
(* and when (error_html, False) is returned.                               *)
EmbedReturned ==
    /\ embed # << >>
    /\ embed.pc = "idle"
    /\ embed.returned # << >>

C30_NoTempFileLeft ==
    EmbedReturned => embed.files = {}

\* what holds of the code: a call that returns success has deleted its file,
\* and a file stays exactly when generating or reading it failed
C30_TempFileOfCode ==
    EmbedReturned =>
        /\ embed.returned[2] => embed.temp_path \notin embed.files
        /\ embed.temp_path \in embed.files
              <=> embed.failed_at \in { "generate", "read" }
        /\ embed.files \subseteq 1 .. embed.calls

==========================================================================
